---- MODULE Spec2Model ----
(***************************************************************************)
(* Calibration selection and drift correction of PPMT-QC (ppmt/drift.py,   *)
(* ppmt/reader.py, ppmt/input.py).                                         *)
(*                                                                         *)
(* Six specifications share the variables:                                 *)
(*   SpecSelect  applies get_calibration_data_setup, as a pure function,   *)
(*               to every header / user year of the bounded input sets;    *)
(*   Spec        runs get_calibration_data for one deployment, one         *)
(*               statement group of the loop body per step;                *)
(*   SpecReader  applies probe_calfile and read_calfile, as pure           *)
(*               functions, to every workbook of the bounded input sets;   *)
(*   SpecProcess runs get_calibration_data and manage_drift_correction     *)
(*               for one deployment, as process_ppmt chains them;          *)
(*   SpecBatch   runs run_actions over the list of unprocessed files;      *)
(*   SpecSerial  follows the device serial from the data file's metadata   *)
(*               through manage_file_type to probe_calfile and             *)
(*               read_calfile.                                             *)
(***************************************************************************)
EXTENDS Integers, Sequences, FiniteSets, TLC

VARIABLES
    calfile,           \* the device's calibration workbook (CALFILES_LOOKUP entry + sheets)
    header,            \* the standard header handed to drift.py
    year_pre,          \* user-forced pre-deployment year (None or int)
    pc,                \* position in the code
    todo,              \* items of header['data_source'] the for loop has not visited yet
    variable,          \* loop variable of get_calibration_data / argument of the selector
    calibrations,      \* value returned by get_calibration_data_setup
    df_pre,            \* pre-deployment table read by read_calfile
    df_post,           \* post-deployment table read by read_calfile
    calibration_data,  \* dict variable -> bracketing table
    read_log,          \* the read_calfile calls made so far, in order
    selected,          \* the selector results obtained so far, per variable
    exception,         \* exception that ended the run ("none" while running)
    stdout,            \* the messages printed so far
    data,              \* the deployment's DataFrame: column name -> series
    drift_correction,  \* header['drift_correction']: variable -> bool
    reader_call,       \* the last call of a reader.py function and its outcome
    action,            \* argument of run_actions
    unprocessed,       \* files of UNPROCESSED the for loop has not visited yet
    run_dir,           \* the processing scripts present in run_dir
    CALFILES_LOOKUP,   \* the serials of the calibration workbooks on disk
    serial,            \* the serial read from the data file's metadata
    device_serial      \* header['device_serial']

vars == <<calfile, header, year_pre, pc, todo, variable, calibrations,
          df_pre, df_post, calibration_data, read_log, selected, exception,
          stdout, data, drift_correction, reader_call, action, unprocessed, run_dir,
          CALFILES_LOOKUP, serial, device_serial>>

\* the variables get_calibration_data works on, besides pc and exception
selectionVars == <<header, year_pre, todo, variable, calibrations, df_pre, df_post,
                   calibration_data, read_log, selected>>

\* the variables the serial's path through manage_file_type works on
serialVars == <<CALFILES_LOOKUP, serial, device_serial>>

\* the variables manage_drift_correction writes
correctionVars == <<data, drift_correction>>

\* the variables of run_actions
batchVars == <<action, unprocessed, run_dir>>

-----------------------------------------------------------------------------
(* Bounds *)

\* deployment year of the modelled deployment
DeploymentYear == 2022

\* a user-forced pre-deployment year lies at most this many years before the deployment year
MaxYearsBack == 3

-----------------------------------------------------------------------------
(* Python values that share a slot with values of another type *)

PyNone == [type |-> "NoneType", val |-> 0]

PyInt(n) == [type |-> "int", val |-> n]

\* the string 'blank' used as a sheet identifier
PyBlank == [type |-> "str_blank", val |-> 0]

\* isinstance(x, int)
IsInt(x) == x.type = "int"

\* a float: not-a-number or a value in thousandths of the unit
NaN == [nan |-> TRUE, val |-> 0]

Float(x) == [nan |-> FALSE, val |-> x]

-----------------------------------------------------------------------------
(* Names *)

SelectorVariables == {"temperature", "depth", "salinity", "conductivity", "pressure"}

\* mutant of fstr: f'{variable}_raw' mistyped as f'{variable}_clean'
fstr_raw_mistyped(v, suffix) ==
    CASE v = "temperature"  /\ suffix = "_calibration"       -> "temperature_calibration"
      [] v = "depth"        /\ suffix = "_calibration"       -> "depth_calibration"
      [] v = "salinity"     /\ suffix = "_raw_calibration"   -> "salinity_raw_calibration"
      [] v = "salinity"     /\ suffix = "_clean_calibration" -> "salinity_clean_calibration"
      [] v = "salinity"     /\ suffix = "_raw"               -> "salinity_clean"
      [] v = "salinity"     /\ suffix = "_clean"             -> "salinity_clean"
      [] v = "conductivity" /\ suffix = "_raw_calibration"   -> "conductivity_raw_calibration"
      [] v = "conductivity" /\ suffix = "_clean_calibration" -> "conductivity_clean_calibration"
      [] v = "conductivity" /\ suffix = "_raw"               -> "conductivity_clean"
      [] v = "conductivity" /\ suffix = "_clean"             -> "conductivity_clean"
      [] v = "temperature"  /\ suffix = "_raw"               -> "temperature_raw"
      [] v = "depth"        /\ suffix = "_raw"               -> "depth_raw"
      [] v = "temperature"  /\ suffix = "_deviation"         -> "temperature_deviation"
      [] v = "depth"        /\ suffix = "_deviation"         -> "depth_deviation"
      [] v = "salinity"     /\ suffix = "_deviation"         -> "salinity_deviation"
      [] v = "conductivity" /\ suffix = "_deviation"         -> "conductivity_deviation"

\* the f-strings of drift.py: f'{variable}_calibration', f'{variable}_raw', ...
fstr(v, suffix) ==
    CASE v = "temperature"  /\ suffix = "_calibration"       -> "temperature_calibration"
      [] v = "depth"        /\ suffix = "_calibration"       -> "depth_calibration"
      [] v = "salinity"     /\ suffix = "_raw_calibration"   -> "salinity_raw_calibration"
      [] v = "salinity"     /\ suffix = "_clean_calibration" -> "salinity_clean_calibration"
      [] v = "salinity"     /\ suffix = "_raw"               -> "salinity_raw"
      [] v = "salinity"     /\ suffix = "_clean"             -> "salinity_clean"
      [] v = "conductivity" /\ suffix = "_raw_calibration"   -> "conductivity_raw_calibration"
      [] v = "conductivity" /\ suffix = "_clean_calibration" -> "conductivity_clean_calibration"
      [] v = "conductivity" /\ suffix = "_raw"               -> "conductivity_raw"
      [] v = "conductivity" /\ suffix = "_clean"             -> "conductivity_clean"
      [] v = "temperature"  /\ suffix = "_raw"               -> "temperature_raw"
      [] v = "depth"        /\ suffix = "_raw"               -> "depth_raw"
      [] v = "temperature"  /\ suffix = "_deviation"         -> "temperature_deviation"
      [] v = "depth"        /\ suffix = "_deviation"         -> "depth_deviation"
      [] v = "salinity"     /\ suffix = "_deviation"         -> "salinity_deviation"
      [] v = "conductivity" /\ suffix = "_deviation"         -> "conductivity_deviation"

\* allowed_values of read_calfile: the calibration blocks of a sheet
Variants == {"temperature", "salinity_raw", "salinity_clean", "conductivity_raw",
             "conductivity_clean", "depth"}

\* the boolean switches of probe_calfile that the selector reads
FlagNames == {"temperature_calibration", "conductivity_raw_calibration",
              "conductivity_clean_calibration", "salinity_raw_calibration",
              "salinity_clean_calibration", "depth_calibration"}

\* the switches that vary in the workbooks the selector is applied to for one variable:
\* the variable's own; for pressure (which has none) those of the depth and
\* temperature blocks
InputFlags(v) ==
    CASE v = "temperature"  -> {"temperature_calibration"}
      [] v = "depth"        -> {"depth_calibration"}
      [] v = "salinity"     -> {"salinity_raw_calibration", "salinity_clean_calibration"}
      [] v = "conductivity" -> {"conductivity_raw_calibration",
                                "conductivity_clean_calibration"}
      [] OTHER              -> {"depth_calibration", "temperature_calibration"}

-----------------------------------------------------------------------------
(* reader.py: the calibration workbook and its probe *)

\* a sheet of the workbook, reduced to which calibration blocks are fully populated
SheetsWith(names) ==
    {s \in [FlagNames -> BOOLEAN] : \A k \in FlagNames : s[k] => k \in names}

\* mutant of probe_calfile: 'calibration_exists' set once the workbook is found
probe_calfile_exists_anyway(cf, deployment_year) ==
    IF deployment_year \in DOMAIN cf.sheets
    THEN [k \in FlagNames \cup {"calibration_exists"} |->
             IF k = "calibration_exists" THEN TRUE ELSE cf.sheets[deployment_year][k]]
    ELSE [k \in FlagNames \cup {"calibration_exists"} |-> k = "calibration_exists"]

\* probe_calfile: the switches of one year, all False when the year has no sheet
probe_calfile(cf, deployment_year) ==
    IF deployment_year \in DOMAIN cf.sheets
    THEN [k \in FlagNames \cup {"calibration_exists"} |->
             IF k = "calibration_exists" THEN TRUE ELSE cf.sheets[deployment_year][k]]
    ELSE [k \in FlagNames \cup {"calibration_exists"} |-> FALSE]

\* mutant of probe_calfile_for_serial: the lookup of the serial is not tested
probe_calfile_for_serial_untested(cf, deployment_year) ==
    [exc |-> "none", calfile_params |-> probe_calfile(cf, deployment_year)]

\* probe_calfile(device_serial, deployment_year) for any serial: FileNotFoundError
\* when CALFILES_LOOKUP holds no workbook for it (lines 270-275)
probe_calfile_for_serial(cf, deployment_year) ==
    IF cf.exists
    THEN [exc |-> "none", calfile_params |-> probe_calfile(cf, deployment_year)]
    ELSE [exc |-> "FileNotFoundError", calfile_params |-> << >>]

\* mutant of probe_calfile_single_year: len(sheet_names) >= 1
probe_calfile_single_year_any_sheet(cf) == Cardinality(DOMAIN cf.sheets) >= 1

\* probe_calfile_single_year: the workbook has exactly one sheet
probe_calfile_single_year(cf) == Cardinality(DOMAIN cf.sheets) = 1

\* no reader.py function called yet
NoCall == [fn |-> "", sheet |-> PyNone, variable |-> "", exc |-> "not_called",
           calfile_params |-> << >>, data |-> << >>]

-----------------------------------------------------------------------------
(* drift.py: get_calibration_data_setup *)

\* a returned choice dictionary
Choice(ok, pre, post) == [exc |-> "none", ok |-> ok, pre |-> pre, post |-> post]

\* the call ended with an exception instead of a return value
Raised(e) == [exc |-> e, ok |-> FALSE, pre |-> <<"", PyNone>>, post |-> <<"", PyNone>>]

\* no call made yet
NoChoice == [exc |-> "not_called", ok |-> FALSE, pre |-> <<"", PyNone>>, post |-> <<"", PyNone>>]

\* mutant of NotOk: the post year that was tried last is left in the dictionary
NotOk_keeps_post_year(name) ==
    Choice(FALSE, <<name, PyNone>>, <<name, PyInt(DeploymentYear + 1)>>)

\* mutant of NotOk: the dictionary literal copied with 'ok': True and a blank bracket
NotOk_copied_ok(name) == Choice(TRUE, <<name, PyBlank>>, <<name, PyBlank>>)

\* {'ok': False, 'pre': (name, None), 'post': (name, None)}
NotOk(name) == Choice(FALSE, <<name, PyNone>>, <<name, PyNone>>)

\* mutant of NewDeviceTD: the single-calibration branch is missing
NewDeviceTD_no_blank(v, hdr, post) ==
    IF hdr.single_year = <<>> THEN Raised("KeyError")
    ELSE NotOk(v)

\* end of the temperature/depth chain: "post deployment is on a new device (single
\* calibration)", else "pre deployment calibration does not exist" (lines 137-142, 156-161)
NewDeviceTD(v, hdr, post) ==
    IF hdr.single_year = <<>> THEN Raised("KeyError")
    ELSE IF hdr.single_year[1]
    THEN Choice(TRUE, <<v, PyBlank>>, post)
    ELSE NotOk(v)

\* mutant of NewDeviceSC: 'blank' is not gated on the single-calibration flag
NewDeviceSC_ungated(v, hdr, post) ==
    IF hdr.single_year = <<>> THEN Raised("KeyError")
    ELSE Choice(TRUE, <<fstr(v, "_raw"), PyBlank>>, post)

\* end of the salinity/conductivity chain (lines 191-196, 217-222)
NewDeviceSC(v, hdr, post) ==
    IF hdr.single_year = <<>> THEN Raised("KeyError")
    ELSE IF hdr.single_year[1]
    THEN Choice(TRUE, <<fstr(v, "_raw"), PyBlank>>, post)
    ELSE NotOk(fstr(v, "_raw"))

\* mutant of PreChoiceTD: two years back is tried before one year back
PreChoiceTD_oldest_first(v, hdr, ypre, mli_cal_year_pre, post_year) ==
    LET year    == hdr.deployment_year
        mli_cal == hdr.mli_calibration
        key     == fstr(v, "_calibration")
        post    == <<v, PyInt(post_year)>>
    IN  IF IsInt(ypre) /\ mli_cal_year_pre[key]
        THEN Choice(TRUE, <<v, ypre>>, post)
        ELSE IF (year - 2) \notin DOMAIN mli_cal THEN Raised("KeyError")
        ELSE IF mli_cal[year - 2][key]
        THEN Choice(TRUE, <<v, PyInt(year - 2)>>, post)
        ELSE IF (year - 1) \notin DOMAIN mli_cal THEN Raised("KeyError")
        ELSE IF mli_cal[year - 1][key]
        THEN Choice(TRUE, <<v, PyInt(year - 1)>>, post)
        ELSE NewDeviceTD(v, hdr, post)

\* the if/elif chain under "post deployment exist" for temperature and depth
\* (lines 129-142 for post = year, 148-161 for post = year + 1)
PreChoiceTD(v, hdr, ypre, mli_cal_year_pre, post_year) ==
    LET year    == hdr.deployment_year
        mli_cal == hdr.mli_calibration
        key     == fstr(v, "_calibration")
        post    == <<v, PyInt(post_year)>>
    IN  IF IsInt(ypre) /\ mli_cal_year_pre[key]
        THEN Choice(TRUE, <<v, ypre>>, post)
        ELSE IF (year - 1) \notin DOMAIN mli_cal THEN Raised("KeyError")
        ELSE IF mli_cal[year - 1][key]
        THEN Choice(TRUE, <<v, PyInt(year - 1)>>, post)
        ELSE IF (year - 2) \notin DOMAIN mli_cal THEN Raised("KeyError")
        ELSE IF mli_cal[year - 2][key]
        THEN Choice(TRUE, <<v, PyInt(year - 2)>>, post)
        ELSE NewDeviceTD(v, hdr, post)

\* mutant of PreChoiceSC: at each year the raw variant is tried before the clean one
PreChoiceSC_raw_first(v, hdr, ypre, mli_cal_year_pre, post_year) ==
    LET year    == hdr.deployment_year
        mli_cal == hdr.mli_calibration
        clean   == fstr(v, "_clean_calibration")
        raw     == fstr(v, "_raw_calibration")
        v_clean == fstr(v, "_clean")
        v_raw   == fstr(v, "_raw")
        post    == <<v_raw, PyInt(post_year)>>
    IN  IF IsInt(ypre) /\ mli_cal_year_pre[raw]
        THEN Choice(TRUE, <<v_raw, ypre>>, post)
        ELSE IF IsInt(ypre) /\ mli_cal_year_pre[clean]
        THEN Choice(TRUE, <<v_clean, ypre>>, post)
        ELSE IF (year - 1) \notin DOMAIN mli_cal THEN Raised("KeyError")
        ELSE IF mli_cal[year - 1][raw]
        THEN Choice(TRUE, <<v_raw, PyInt(year - 1)>>, post)
        ELSE IF mli_cal[year - 1][clean]
        THEN Choice(TRUE, <<v_clean, PyInt(year - 1)>>, post)
        ELSE IF (year - 2) \notin DOMAIN mli_cal THEN Raised("KeyError")
        ELSE IF mli_cal[year - 2][raw]
        THEN Choice(TRUE, <<v_raw, PyInt(year - 2)>>, post)
        ELSE IF mli_cal[year - 2][clean]
        THEN Choice(TRUE, <<v_clean, PyInt(year - 2)>>, post)
        ELSE NewDeviceSC(v, hdr, post)

\* the if/elif chain under "post deployment exist" for salinity and conductivity
\* (lines 174-196 for post = year, 200-222 for post = year + 1)
PreChoiceSC(v, hdr, ypre, mli_cal_year_pre, post_year) ==
    LET year    == hdr.deployment_year
        mli_cal == hdr.mli_calibration
        clean   == fstr(v, "_clean_calibration")
        raw     == fstr(v, "_raw_calibration")
        v_clean == fstr(v, "_clean")
        v_raw   == fstr(v, "_raw")
        post    == <<v_raw, PyInt(post_year)>>
    IN  IF IsInt(ypre) /\ mli_cal_year_pre[clean]
        THEN Choice(TRUE, <<v_clean, ypre>>, post)
        ELSE IF IsInt(ypre) /\ mli_cal_year_pre[raw]
        THEN Choice(TRUE, <<v_raw, ypre>>, post)
        ELSE IF (year - 1) \notin DOMAIN mli_cal THEN Raised("KeyError")
        ELSE IF mli_cal[year - 1][clean]
        THEN Choice(TRUE, <<v_clean, PyInt(year - 1)>>, post)
        ELSE IF mli_cal[year - 1][raw]
        THEN Choice(TRUE, <<v_raw, PyInt(year - 1)>>, post)
        ELSE IF (year - 2) \notin DOMAIN mli_cal THEN Raised("KeyError")
        ELSE IF mli_cal[year - 2][clean]
        THEN Choice(TRUE, <<v_clean, PyInt(year - 2)>>, post)
        ELSE IF mli_cal[year - 2][raw]
        THEN Choice(TRUE, <<v_raw, PyInt(year - 2)>>, post)
        ELSE NewDeviceSC(v, hdr, post)

\* mutant of get_calibration_data_setup: the year after the deployment year is tried
\* before the deployment year
get_calibration_data_setup_next_year_first(v, hdr, ypre, cf) ==
    LET year    == hdr.deployment_year
        mli_cal == hdr.mli_calibration
        mli_cal_year_pre == IF IsInt(ypre) THEN probe_calfile(cf, ypre.val)
                            ELSE probe_calfile(cf, year)
    IN  IF IsInt(ypre) /\ ~cf.exists THEN Raised("FileNotFoundError")
        ELSE IF v \in {"temperature", "depth"}
        THEN IF (year + 1) \notin DOMAIN mli_cal THEN Raised("KeyError")
             ELSE IF mli_cal[year + 1][fstr(v, "_calibration")]
             THEN PreChoiceTD(v, hdr, ypre, mli_cal_year_pre, year + 1)
             ELSE IF year \notin DOMAIN mli_cal THEN Raised("KeyError")
             ELSE IF mli_cal[year][fstr(v, "_calibration")]
             THEN PreChoiceTD(v, hdr, ypre, mli_cal_year_pre, year)
             ELSE NotOk(v)
        ELSE IF v \in {"salinity", "conductivity"}
        THEN IF (year + 1) \notin DOMAIN mli_cal THEN Raised("KeyError")
             ELSE IF mli_cal[year + 1][fstr(v, "_raw_calibration")]
             THEN PreChoiceSC(v, hdr, ypre, mli_cal_year_pre, year + 1)
             ELSE IF year \notin DOMAIN mli_cal THEN Raised("KeyError")
             ELSE IF mli_cal[year][fstr(v, "_raw_calibration")]
             THEN PreChoiceSC(v, hdr, ypre, mli_cal_year_pre, year)
             ELSE NotOk(v)
        ELSE IF v \in {"pressure"}
        THEN NotOk(v)
        ELSE Raised("UnboundLocalError")

\* get_calibration_data_setup(variable, header, year_pre); cf is the workbook that
\* probe_calfile(header['device_serial'], year_pre) opens
get_calibration_data_setup(v, hdr, ypre, cf) ==
    LET year    == hdr.deployment_year
        mli_cal == hdr.mli_calibration
        mli_cal_year_pre == IF IsInt(ypre) THEN probe_calfile(cf, ypre.val)
                            ELSE probe_calfile(cf, year)   \* unbound in the code, never read
    IN  IF IsInt(ypre) /\ ~cf.exists THEN Raised("FileNotFoundError")
        ELSE IF v \in {"temperature", "depth"}
        THEN IF year \notin DOMAIN mli_cal THEN Raised("KeyError")
             ELSE IF mli_cal[year][fstr(v, "_calibration")]
             THEN PreChoiceTD(v, hdr, ypre, mli_cal_year_pre, year)
             ELSE IF (year + 1) \notin DOMAIN mli_cal THEN Raised("KeyError")
             ELSE IF mli_cal[year + 1][fstr(v, "_calibration")]
             THEN PreChoiceTD(v, hdr, ypre, mli_cal_year_pre, year + 1)
             ELSE NotOk(v)
        ELSE IF v \in {"salinity", "conductivity"}
        THEN IF year \notin DOMAIN mli_cal THEN Raised("KeyError")
             ELSE IF mli_cal[year][fstr(v, "_raw_calibration")]
             THEN PreChoiceSC(v, hdr, ypre, mli_cal_year_pre, year)
             ELSE IF (year + 1) \notin DOMAIN mli_cal THEN Raised("KeyError")
             ELSE IF mli_cal[year + 1][fstr(v, "_raw_calibration")]
             THEN PreChoiceSC(v, hdr, ypre, mli_cal_year_pre, year + 1)
             ELSE NotOk(v)
        ELSE IF v \in {"pressure"}
        THEN NotOk(v)
        ELSE Raised("UnboundLocalError")   \* no branch binds `calibrations`

-----------------------------------------------------------------------------
(* Inputs *)

\* the availability window of a complete header: year - 2 .. year + 1
Window == (DeploymentYear - 2)..(DeploymentYear + 1)

\* the years a user may force as pre-deployment year
UserYears == (DeploymentYear - MaxYearsBack)..(DeploymentYear + 1)

\* the years the workbook may hold a sheet for
CalYears == Window \cup UserYears

\* year_pre: None or an int
YearPreValues == {PyNone} \cup {PyInt(y) : y \in UserYears}

\* deviation cells (thousandths) of a workbook whose blocks all hold the deviation d
SameDeviation(years, d) == [y \in years |-> [v \in Variants |-> d]]

\* the items of a data_source dictionary holding one observed variable
OneObserved(v) == << <<v, "observation">> >>

\* timestamp of the installation (days since TIME_ORIGIN), inside the deployment year
InstallationDay == (DeploymentYear - 2000) * 365 + 150

\* a header whose mli_calibration holds the years `years` and, when with_single,
\* the key 'single_year'
Header(cf, data_source, years, with_single, single) ==
    [deployment_year |-> DeploymentYear,
     data_source     |-> data_source,
     mli_calibration |-> [y \in years |-> probe_calfile(cf, y)],
     single_year     |-> IF with_single THEN <<single>> ELSE <<>>,
     trip_installation_real_date |-> InstallationDay]

-----------------------------------------------------------------------------
(* SpecSelect: the selector as a pure function of its arguments *)

\* the arguments of one call: any of the five variables, a header holding the probes
\* of the whole window for any population of the variable's blocks, either value of
\* 'single_year', and year_pre None or any user year
InitSelect ==
    /\ variable \in SelectorVariables
    /\ calfile \in {[exists |-> TRUE, sheets |-> s, deviation |-> SameDeviation(CalYears, 0),
                      no_standard |-> {}] :
                        s \in [CalYears -> SheetsWith(InputFlags(variable))]}
    /\ \E single \in BOOLEAN :
           header = Header(calfile, OneObserved(variable), Window, TRUE, single)
    /\ year_pre \in YearPreValues
    /\ pc = "setup"
    /\ todo = << >>
    /\ calibrations = NoChoice
    /\ df_pre = << >>
    /\ df_post = << >>
    /\ calibration_data = << >>
    /\ read_log = << >>
    /\ selected = << >>
    /\ exception = "none"
    /\ stdout = << >>
    /\ CALFILES_LOOKUP = {}
    /\ serial = << >>
    /\ device_serial = PyNone
    /\ data = << >>
    /\ drift_correction = << >>
    /\ reader_call = NoCall
    /\ action = ""
    /\ unprocessed = << >>
    /\ run_dir = {}

\* one call of get_calibration_data_setup(variable, header, year_pre)
SelectCall ==
    /\ pc = "setup"
    /\ calibrations' = get_calibration_data_setup(variable, header, year_pre, calfile)
    /\ pc' = "returned"
    /\ UNCHANGED <<serialVars, calfile, header, year_pre, todo, variable, df_pre, df_post,
                   calibration_data, read_log, selected, exception>>
    /\ UNCHANGED <<stdout, correctionVars, reader_call, batchVars>>

NextSelect == SelectCall

SpecSelect == InitSelect /\ [][NextSelect]_vars

-----------------------------------------------------------------------------
(* input.py: manage_file_type *)

\* the columns a data file may hold besides time
Columns == {"depth", "pressure", "temperature", "conductivity", "salinity", "sigma_t"}

\* data_source as manage_file_type leaves it, given the columns of the data file
\* (every Seabird file holds temperature; the `suivi` row always has the key
\* 'instrument_depth'). A dictionary key -> source; the key 'sigma_t' exists only when set.
data_source_of(columns) ==
    LET keys0 == {"temperature", "salinity", "conductivity", "depth", "pressure"}
        \* lines 32-36, 57-59
        ds1 == [k \in keys0 \cup (columns \cap {"sigma_t"}) |->
                   IF k \in columns THEN "observation" ELSE "None"]
        \* lines 66-77: depth
        depth_from_p == "depth" \notin columns /\ "pressure" \in columns
        depth_from_suivi == "depth" \notin columns /\ "pressure" \notin columns
        inc2 == columns \cup {"depth"}
        ds2 == IF depth_from_p
               THEN [ds1 EXCEPT !["depth"] = "teos10", !["pressure"] = "observation"]
               ELSE IF depth_from_suivi
               THEN [ds1 EXCEPT !["depth"] = "metadata"]
               ELSE ds1
        \* lines 80-87: pressure
        p_from_depth == "pressure" \notin inc2 /\ "depth" \in inc2
        inc3 == IF p_from_depth THEN inc2 \cup {"pressure"} ELSE inc2
        ds3 == IF p_from_depth
               THEN [ds2 EXCEPT !["pressure"] = "teos10", !["depth"] = "observation"]
               ELSE ds2
        \* lines 90-97: conductivity
        c_from_s == "conductivity" \notin inc3 /\ "salinity" \in inc3 /\ "pressure" \in inc3
        inc4 == IF c_from_s THEN inc3 \cup {"conductivity"} ELSE inc3
        ds4 == IF c_from_s
               THEN [ds3 EXCEPT !["conductivity"] = "teos10", !["salinity"] = "observation"]
               ELSE ds3
        \* lines 100-107: salinity
        s_from_c == "salinity" \notin inc4 /\ "pressure" \in inc4 /\ "conductivity" \in inc4
        inc5 == IF s_from_c THEN inc4 \cup {"salinity"} ELSE inc4
        ds5 == IF s_from_c
               THEN [ds4 EXCEPT !["conductivity"] = "observation", !["salinity"] = "teos10"]
               ELSE ds4
        \* lines 110-122: sigma_t
        sigma == "sigma_t" \notin inc5 /\ {"temperature", "salinity", "pressure"} \subseteq inc5
    IN  IF sigma
        THEN [k \in DOMAIN ds5 \cup {"sigma_t"} |-> IF k = "sigma_t" THEN "teos10" ELSE ds5[k]]
        ELSE ds5

\* header['data_source'].items(): the dictionary's items in insertion order
items(ds) ==
    LET order == <<"temperature", "salinity", "conductivity", "depth", "pressure", "sigma_t">>
        present == SelectSeq(order, LAMBDA k : k \in DOMAIN ds)
    IN  [i \in 1..Len(present) |-> <<present[i], ds[present[i]]>>]

\* the header manage_file_type returns: mli_calibration holds the probes of
\* year, year - 1 and year - 2 (lines 152-155) and no other key
manage_file_type(cf, columns) ==
    Header(cf, items(data_source_of(columns)),
           (DeploymentYear - 2)..DeploymentYear, FALSE, FALSE)

\* the header the selector's lookups ask for: the probes of year - 2 .. year + 1 and
\* the device's single-calibration flag under 'single_year'
complete_header(cf, columns) ==
    Header(cf, items(data_source_of(columns)), Window, TRUE, probe_calfile_single_year(cf))

-----------------------------------------------------------------------------
(* reader.py: read_calfile *)

\* time cell of a calibration point: a Timestamp (days since TIME_ORIGIN) or the
\* string 'deployment'
Timestamp(t) == [kind |-> "timestamp", t |-> t]

\* mutant of DeploymentMarker: the blank rows are dated with TIME_ORIGIN
DeploymentMarker_as_origin == [kind |-> "timestamp", t |-> 0]

DeploymentMarker == [kind |-> "deployment", t |-> 0]

\* the date cell of the sheet of a year: the calibration follows the recovery
CalibrationDay(y) == (y - 2000) * 365 + 300

\* nrows of rdxl_kw for a variant; 0 for a name read_calfile rejects
nrows_of(variant) ==
    CASE variant = "temperature" -> 6
      [] variant \in {"conductivity_raw", "salinity_raw",
                      "conductivity_clean", "salinity_clean"} -> 4
      [] variant = "depth" -> 10
      [] OTHER -> 0

\* a call that returned the DataFrame `df`
Table(df) == [exc |-> "none", data |-> df]

\* a call that raised
NoTable(e) == [exc |-> e, data |-> << >>]

\* mutant of read_calfile: a sheet the workbook lacks is read as a block of zeros
read_calfile_zeros_for_missing(cf, sheet, variant) ==
    IF ~cf.exists THEN NoTable("FileNotFoundError")
    ELSE IF nrows_of(variant) = 0 THEN NoTable("ValueError")
    ELSE IF sheet = PyBlank \/ ~(IsInt(sheet) /\ sheet.val \in DOMAIN cf.sheets)
    THEN Table([r \in 1..nrows_of(variant) |->
                   [time |-> DeploymentMarker, standard |-> Float(0), instrument |-> 0,
                    deviation |-> 0]])
    ELSE Table([r \in 1..nrows_of(variant) |->
                   [time |-> Timestamp(CalibrationDay(sheet.val)),
                    standard |-> IF sheet.val \in cf.no_standard THEN NaN
                                 ELSE Float(r * 1000),
                    instrument |-> r * 1000 - cf.deviation[sheet.val][variant],
                    deviation |-> cf.deviation[sheet.val][variant]]])

\* read_calfile(device_serial, sheet, variable): values in thousandths of the unit;
\* row r of a sheet block holds the standard r * 1000 (nan when the sheet's standard
\* cells are empty) and the block's deviation
read_calfile(cf, sheet, variant) ==
    IF ~cf.exists THEN NoTable("FileNotFoundError")
    ELSE IF nrows_of(variant) = 0 THEN NoTable("ValueError")
    ELSE IF sheet = PyBlank
    THEN Table([r \in 1..nrows_of(variant) |->
                   [time |-> DeploymentMarker, standard |-> Float(0), instrument |-> 0,
                    deviation |-> 0]])
    ELSE IF ~(IsInt(sheet) /\ sheet.val \in DOMAIN cf.sheets) THEN NoTable("ValueError")
    ELSE Table([r \in 1..nrows_of(variant) |->
                   [time |-> Timestamp(CalibrationDay(sheet.val)),
                    standard |-> IF sheet.val \in cf.no_standard THEN NaN
                                 ELSE Float(r * 1000),
                    instrument |-> r * 1000 - cf.deviation[sheet.val][variant],
                    deviation |-> cf.deviation[sheet.val][variant]]])

-----------------------------------------------------------------------------
(* drift.py: get_calibration_data, one deployment *)

\* at most this many sheets in a workbook
MaxSheets == 2

\* what a sheet holds: a temperature logger's calibration, a CTD's as-recovered (raw)
\* calibration, a CTD's raw and clean calibrations
SheetProfiles ==
    {s \in [FlagNames -> BOOLEAN] :
        \/ {k \in FlagNames : s[k]} = {"temperature_calibration"}
        \/ {k \in FlagNames : s[k]} = FlagNames \ {"conductivity_clean_calibration",
                                                   "salinity_clean_calibration"}
        \/ {k \in FlagNames : s[k]} = FlagNames}

\* deviations (thousandths) written in a workbook's calibration blocks
Deviations == {20}

Workbooks ==
    {[exists |-> TRUE, sheets |-> s, deviation |-> SameDeviation(DOMAIN s, d),
      no_standard |-> {}] :
        s \in UNION {[S -> SheetProfiles] :
                        S \in {T \in SUBSET CalYears : Cardinality(T) <= MaxSheets}},
        d \in Deviations}

\* year_pre of a whole run: None (process_ppmt) or a year before the header's window
RunYearPre == {PyNone, PyInt(DeploymentYear - MaxYearsBack)}

\* the column sets of the data files: temperature and any of the other columns
ColumnSets == {c \in SUBSET Columns : "temperature" \in c}

Init ==
    /\ calfile \in Workbooks
    /\ \E columns \in ColumnSets :
          header \in {manage_file_type(calfile, columns), complete_header(calfile, columns)}
    /\ year_pre \in RunYearPre
    /\ pc = "loop"
    /\ todo = header.data_source
    /\ variable = ""
    /\ calibrations = NoChoice
    /\ df_pre = << >>
    /\ df_post = << >>
    /\ calibration_data = << >>
    /\ read_log = << >>
    /\ selected = << >>
    /\ exception = "none"
    /\ stdout = << >>
    /\ CALFILES_LOOKUP = {}
    /\ serial = << >>
    /\ device_serial = PyNone
    /\ data = << >>
    /\ drift_correction = << >>
    /\ reader_call = NoCall
    /\ action = ""
    /\ unprocessed = << >>
    /\ run_dir = {}

\* the message of lines 80-85
NoValidCalibrationCase(v, hdr) ==
    [message |-> "No valid calibration case for", variable |-> v,
     deployment_year |-> hdr.deployment_year]

\* for variable, source in ...: source != 'observation' (line 57)
LoopSkip ==
    /\ pc = "loop"
    /\ todo # << >>
    /\ Head(todo)[2] # "observation"
    /\ variable' = Head(todo)[1]
    /\ todo' = Tail(todo)
    /\ UNCHANGED <<serialVars, calfile, header, year_pre, pc, calibrations, df_pre, df_post,
                   calibration_data, read_log, selected, exception>>
    /\ UNCHANGED <<stdout, correctionVars, reader_call, batchVars>>

\* mutant of LoopSelect: the test of calibrations['ok'] is missing
LoopSelect_ignores_ok ==
    /\ pc = "loop"
    /\ todo # << >>
    /\ Head(todo)[2] = "observation"
    /\ variable' = Head(todo)[1]
    /\ todo' = Tail(todo)
    /\ LET c == get_calibration_data_setup(Head(todo)[1], header, year_pre, calfile)
       IN  /\ calibrations' = c
           /\ selected' = (Head(todo)[1] :> c) @@ selected
           /\ exception' = c.exc
           /\ pc' = IF c.exc # "none" THEN "raised" ELSE "read_pre"
    /\ UNCHANGED <<serialVars, calfile, header, year_pre, df_pre, df_post, calibration_data,
                   read_log>>
    /\ UNCHANGED <<stdout, correctionVars, reader_call, batchVars>>

\* mutant of LoopSelect: the test of line 57 on the source is dropped
LoopSelect_any_source ==
    /\ pc = "loop"
    /\ todo # << >>
    /\ variable' = Head(todo)[1]
    /\ todo' = Tail(todo)
    /\ LET c == get_calibration_data_setup(Head(todo)[1], header, year_pre, calfile)
       IN  /\ calibrations' = c
           /\ selected' = (Head(todo)[1] :> c) @@ selected
           /\ exception' = c.exc
           /\ stdout' = IF c.exc = "none" /\ ~c.ok
                        THEN Append(stdout, NoValidCalibrationCase(Head(todo)[1], header))
                        ELSE stdout
           /\ pc' = IF c.exc # "none" THEN "raised"
                    ELSE IF c.ok THEN "read_pre"
                    ELSE "loop"
    /\ UNCHANGED <<serialVars, calfile, header, year_pre, df_pre, df_post, calibration_data,
                   read_log>>
    /\ UNCHANGED <<correctionVars, reader_call, batchVars>>

\* lines 56-61 and 79-86: an observed variable is handed to the selector
LoopSelect ==
    /\ pc = "loop"
    /\ todo # << >>
    /\ Head(todo)[2] = "observation"
    /\ variable' = Head(todo)[1]
    /\ todo' = Tail(todo)
    /\ LET c == get_calibration_data_setup(Head(todo)[1], header, year_pre, calfile)
       IN  /\ calibrations' = c
           /\ selected' = (Head(todo)[1] :> c) @@ selected
           /\ exception' = c.exc
           /\ stdout' = IF c.exc = "none" /\ ~c.ok
                        THEN Append(stdout, NoValidCalibrationCase(Head(todo)[1], header))
                        ELSE stdout
           /\ pc' = IF c.exc # "none" THEN "raised"
                    ELSE IF c.ok THEN "read_pre"
                    ELSE "loop"
    /\ UNCHANGED <<serialVars, calfile, header, year_pre, df_pre, df_post, calibration_data,
                   read_log>>
    /\ UNCHANGED <<correctionVars, reader_call, batchVars>>

\* lines 63-65
ReadPre ==
    /\ pc = "read_pre"
    /\ LET r == read_calfile(calfile, calibrations.pre[2], calibrations.pre[1])
       IN  /\ read_log' = Append(read_log, [variable |-> variable,
                                             variant  |-> calibrations.pre[1],
                                             sheet    |-> calibrations.pre[2]])
           /\ df_pre' = r.data
           /\ exception' = r.exc
           /\ pc' = IF r.exc # "none" THEN "raised" ELSE "resolve"
    /\ UNCHANGED <<serialVars, calfile, header, year_pre, todo, variable, calibrations, df_post,
                   calibration_data, selected>>
    /\ UNCHANGED <<stdout, correctionVars, reader_call, batchVars>>

\* mutant of ResolveDeployment: the 'deployment' times are left as read
ResolveDeployment_skipped ==
    /\ pc = "resolve"
    /\ pc' = "read_post"
    /\ UNCHANGED <<serialVars, calfile, header, year_pre, todo, variable, calibrations, df_pre,
                   df_post, calibration_data, read_log, selected, exception>>
    /\ UNCHANGED <<stdout, correctionVars, reader_call, batchVars>>

\* lines 67-69
ResolveDeployment ==
    /\ pc = "resolve"
    /\ df_pre' = IF \E i \in DOMAIN df_pre : df_pre[i].time = DeploymentMarker
                 THEN [i \in DOMAIN df_pre |->
                          [df_pre[i] EXCEPT
                              !.time = Timestamp(header.trip_installation_real_date)]]
                 ELSE df_pre
    /\ pc' = "read_post"
    /\ UNCHANGED <<serialVars, calfile, header, year_pre, todo, variable, calibrations, df_post,
                   calibration_data, read_log, selected, exception>>
    /\ UNCHANGED <<stdout, correctionVars, reader_call, batchVars>>

\* lines 71-74
ReadPost ==
    /\ pc = "read_post"
    /\ LET r == read_calfile(calfile, calibrations.post[2], calibrations.post[1])
       IN  /\ read_log' = Append(read_log, [variable |-> variable,
                                             variant  |-> calibrations.post[1],
                                             sheet    |-> calibrations.post[2]])
           /\ df_post' = r.data
           /\ exception' = r.exc
           /\ pc' = IF r.exc # "none" THEN "raised" ELSE "store"
    /\ UNCHANGED <<serialVars, calfile, header, year_pre, todo, variable, calibrations, df_pre,
                   calibration_data, selected>>
    /\ UNCHANGED <<stdout, correctionVars, reader_call, batchVars>>

\* lines 76-77
Store ==
    /\ pc = "store"
    /\ calibration_data' = (variable :> (df_pre \o df_post)) @@ calibration_data
    /\ pc' = "loop"
    /\ UNCHANGED <<serialVars, calfile, header, year_pre, todo, variable, calibrations, df_pre,
                   df_post, read_log, selected, exception>>
    /\ UNCHANGED <<stdout, correctionVars, reader_call, batchVars>>

\* line 89
Return ==
    /\ pc = "loop"
    /\ todo = << >>
    /\ pc' = "done"
    /\ UNCHANGED <<serialVars, calfile, header, year_pre, todo, variable, calibrations, df_pre,
                   df_post, calibration_data, read_log, selected, exception>>
    /\ UNCHANGED <<stdout, correctionVars, reader_call, batchVars>>

Next ==
    \/ LoopSkip
    \/ LoopSelect
    \/ ReadPre
    \/ ResolveDeployment
    \/ ReadPost
    \/ Store
    \/ Return

Spec == Init /\ [][Next]_vars

-----------------------------------------------------------------------------
(* drift.py: interpolate_deviation and manage_drift_correction *)

\* THRESHOLDS of __init__.py, in thousandths of the unit
THRESHOLDS == [temperature |-> 10, salinity |-> 50, conductivity |-> 9, depth |-> 1000]

\* mutant of Add: a missing deviation counts as zero
Add_nan_as_zero(a, b) == IF a.nan THEN NaN ELSE IF b.nan THEN a ELSE Float(a.val + b.val)

\* a + b on floats
Add(a, b) == IF a.nan \/ b.nan THEN NaN ELSE Float(a.val + b.val)

\* Series.abs() of one cell
Abs(x) == IF x < 0 THEN -x ELSE x

\* timestamp2numeric: days since TIME_ORIGIN
timestamp2numeric(ts) == ts.t

\* caldata.loc[:, 'time_num'] = timestamp2numeric(caldata.time)
with_time_num(caldata) ==
    [i \in DOMAIN caldata |->
        [time |-> caldata[i].time, standard |-> caldata[i].standard,
         instrument |-> caldata[i].instrument, deviation |-> caldata[i].deviation,
         time_num |-> timestamp2numeric(caldata[i].time)]]

\* caldata.query('~standard.isnull()')
notnull(caldata) == SelectSeq(caldata, LAMBDA row : ~row.standard.nan)

Min(S) == CHOOSE x \in S : \A y \in S : x <= y

Max(S) == CHOOSE x \in S : \A y \in S : x >= y

\* no calibration point is left, or the points lie on one line: Qhull cannot build
\* the triangulation
Collinear(pts) ==
    LET times == {pts[i].time_num : i \in DOMAIN pts}
    IN  \/ Cardinality(times) < 2
        \/ \A t \in times : Cardinality({pts[i].standard.val : i \in {j \in DOMAIN pts :
                                                        pts[j].time_num = t}}) < 2

\* interpolant((t, x)) of LinearNDInterpolator. A bracketing table holds two blocks,
\* each with one date and one deviation: its points lie on two lines of constant time,
\* and the piecewise linear interpolant over any triangulation of them is the linear
\* blend of the two deviations in time (rounded down to the thousandth); outside the
\* convex hull of the points, and for a missing coordinate, it is nan
interpolant(pts, t, x) ==
    LET times == {pts[i].time_num : i \in DOMAIN pts}
        t1 == Min(times)
        t2 == Max(times)
        line(tt) == {i \in DOMAIN pts : pts[i].time_num = tt}
        lo(tt) == Min({pts[i].standard.val : i \in line(tt)})
        hi(tt) == Max({pts[i].standard.val : i \in line(tt)})
        dev(tt) == pts[CHOOSE i \in line(tt) : TRUE].deviation
        D == t2 - t1
        a == t - t1
    IN  IF x.nan THEN NaN
        ELSE IF a < 0 \/ a > D THEN NaN
        ELSE IF x.val * D < lo(t1) * D + a * (lo(t2) - lo(t1)) THEN NaN
        ELSE IF x.val * D > hi(t1) * D + a * (hi(t2) - hi(t1)) THEN NaN
        ELSE Float(dev(t1) + ((dev(t2) - dev(t1)) * a) \div D)

\* an array of deviations returned
Deviation(d) == [exc |-> "none", deviation |-> d]

\* interpolate_deviation(caldata, data, param)
interpolate_deviation(caldata, df, param) ==
    LET pts == notnull(with_time_num(caldata))
    IN  IF Collinear(pts) THEN [exc |-> "QhullError", deviation |-> << >>]
        ELSE Deviation([i \in DOMAIN df[param] |->
                           interpolant(pts, timestamp2numeric(df["time"][i]), df[param][i])])

\* mutant of exceeds: the comparison written >=
exceeds_or_equals(caldata, v) ==
    \E i \in DOMAIN caldata : Abs(caldata[i].deviation) >= THRESHOLDS[v]

\* (calibration_data[variable]['deviation'].abs() > THRESHOLDS[f'{variable}']).any()
exceeds(caldata, v) ==
    \E i \in DOMAIN caldata : Abs(caldata[i].deviation) > THRESHOLDS[v]

\* a column assigned to the DataFrame
set_column(df, name, series) == (name :> series) @@ df

\* mutant of store_deviation: the deviations are stored without their nan entries
store_deviation_dropna(df, v, deviation) ==
    set_column(set_column(df, "time_num",
                          [i \in DOMAIN df["time"] |-> Float(timestamp2numeric(df["time"][i]))]),
               fstr(v, "_deviation"), SelectSeq(deviation, LAMBDA d : ~d.nan))

\* lines 262 and 310: data gains the columns 'time_num' and f'{variable}_deviation'
store_deviation(df, v, deviation) ==
    set_column(set_column(df, "time_num",
                          [i \in DOMAIN df["time"] |-> Float(timestamp2numeric(df["time"][i]))]),
               fstr(v, "_deviation"), deviation)

\* mutant of apply_correction: the deviation is added to every column of values
apply_correction_every_column(df, v, deviation) ==
    [c \in DOMAIN df \cup {fstr(v, "_raw")} |->
        IF c = fstr(v, "_raw") THEN df[v]
        ELSE IF c \in {"temperature", "salinity", "conductivity", "depth", "pressure"}
        THEN [i \in DOMAIN df[c] |-> Add(df[c][i], deviation[i])]
        ELSE df[c]]

\* mutant of apply_correction: the deviation is subtracted
apply_correction_subtracting(df, v, deviation) ==
    set_column(set_column(df, fstr(v, "_raw"), df[v]),
               v, [i \in DOMAIN df[v] |->
                      Add(df[v][i], IF deviation[i].nan THEN NaN
                                    ELSE Float(-deviation[i].val))])

\* lines 323-325: the copy to f'{variable}_raw' and data[variable] += deviation
apply_correction(df, v, deviation) ==
    set_column(set_column(df, fstr(v, "_raw"), df[v]),
               v, [i \in DOMAIN df[v] |-> Add(df[v][i], deviation[i])])

-----------------------------------------------------------------------------
(* SpecProcess: get_calibration_data, then manage_drift_correction, as in process_ppmt *)

\* number of observations of the deployment
MaxObs == 2

\* the observations are taken every ObsInterval days from the installation on
ObsInterval == 50

\* the series (thousandths) a column holds: a low value up to some observation and
\* a high one after it, or a missing first value
ObsSeries ==
    {[i \in 1..MaxObs |-> IF i <= k THEN Float(2000) ELSE Float(5000)] : k \in 0..MaxObs}
        \cup {[i \in 1..MaxObs |-> IF i = 1 THEN NaN ELSE Float(2000)]}

\* what a sheet holds: a temperature and depth logger's calibration, a CTD's raw and
\* clean calibrations
ProcessSheetProfiles ==
    {s \in [FlagNames -> BOOLEAN] :
        \/ {k \in FlagNames : s[k]} = {"temperature_calibration", "depth_calibration"}
        \/ {k \in FlagNames : s[k]} = FlagNames}

\* the variable a block calibrates
VariableOf(variant) ==
    CASE variant \in {"salinity_raw", "salinity_clean"} -> "salinity"
      [] variant \in {"conductivity_raw", "conductivity_clean"} -> "conductivity"
      [] OTHER -> variant

\* the deviations of the blocks of a sheet, relative to each variable's threshold:
\* all at the threshold, all one thousandth above it, all one thousandth below
\* its negative
DeviationLevels == {"at", "above", "below"}

DeviationCells(level) ==
    [v \in Variants |->
        CASE level = "at"    -> THRESHOLDS[VariableOf(v)]
          [] level = "above" -> THRESHOLDS[VariableOf(v)] + 1
          [] level = "below" -> -(THRESHOLDS[VariableOf(v)] + 1)]

ProcessWorkbooks ==
    {[exists |-> TRUE, sheets |-> s, deviation |-> [y \in DOMAIN s |-> DeviationCells(l[y])],
      no_standard |-> {}] :
        <<s, l>> \in UNION {[S -> ProcessSheetProfiles] \X [S -> DeviationLevels] :
                              S \in {T \in SUBSET Window : Cardinality(T) <= MaxSheets}}}

\* workbooks of CTDs some of whose sheets have populated instrument and deviation
\* cells (the cells probe_calfile tests) and empty standard cells
NoStandardWorkbooks ==
    {[exists |-> TRUE,
      sheets |-> [y \in S |-> [k \in FlagNames |-> TRUE]],
      deviation |-> [y \in S |-> DeviationCells("above")],
      no_standard |-> N] :
        <<S, N>> \in {x \in (SUBSET Window) \X (SUBSET Window) :
                        /\ Cardinality(x[1]) <= MaxSheets
                        /\ x[2] # {}
                        /\ x[2] \subseteq x[1]}}

\* the column sets of the data files: a temperature logger's, two CTDs'
ProcessColumnSets == {{"temperature"},
                      {"temperature", "conductivity", "pressure"},
                      {"temperature", "salinity", "depth"}}

\* the DataFrame handed to manage_drift_correction: the times of the observations
\* and one column per key of data_source, every column holding the series obs
DataFrame(hdr, obs) ==
    [c \in {"time"} \cup {hdr.data_source[i][1] : i \in DOMAIN hdr.data_source} |->
        IF c = "time"
        THEN [i \in DOMAIN obs |->
                 Timestamp(hdr.trip_installation_real_date + i * ObsInterval)]
        ELSE obs]

InitProcess ==
    /\ calfile \in ProcessWorkbooks \cup NoStandardWorkbooks
    /\ \E columns \in ProcessColumnSets :
          header \in {manage_file_type(calfile, columns), complete_header(calfile, columns)}
    /\ \E obs \in ObsSeries : data = DataFrame(header, obs)
    /\ year_pre = PyNone
    /\ pc = "loop"
    /\ todo = header.data_source
    /\ variable = ""
    /\ calibrations = NoChoice
    /\ df_pre = << >>
    /\ df_post = << >>
    /\ calibration_data = << >>
    /\ read_log = << >>
    /\ selected = << >>
    /\ exception = "none"
    /\ stdout = << >>
    /\ CALFILES_LOOKUP = {}
    /\ serial = << >>
    /\ device_serial = PyNone
    /\ drift_correction = << >>
    /\ reader_call = NoCall
    /\ action = ""
    /\ unprocessed = << >>
    /\ run_dir = {}

\* line 298: header['drift_correction'] = dict(), and the loop is entered
ManageDriftCorrection ==
    /\ pc = "done"
    /\ drift_correction' = << >>
    /\ todo' = header.data_source
    /\ pc' = "correct"
    /\ UNCHANGED <<serialVars, calfile, header, year_pre, variable, calibrations, df_pre, df_post,
                   calibration_data, read_log, selected, exception, stdout, data,
                   reader_call, batchVars>>

\* mutant of CorrectSkip: a variable without calibration data is recorded as uncorrected
CorrectSkip_records_false ==
    /\ pc = "correct"
    /\ todo # << >>
    /\ Head(todo)[1] \notin DOMAIN calibration_data
    /\ variable' = Head(todo)[1]
    /\ todo' = Tail(todo)
    /\ drift_correction' = (Head(todo)[1] :> FALSE) @@ drift_correction
    /\ UNCHANGED <<serialVars, calfile, header, year_pre, pc, calibrations, df_pre, df_post,
                   calibration_data, read_log, selected, exception, stdout, data,
                   reader_call, batchVars>>

\* line 302: the variable has no entry in calibration_data
CorrectSkip ==
    /\ pc = "correct"
    /\ todo # << >>
    /\ Head(todo)[1] \notin DOMAIN calibration_data
    /\ variable' = Head(todo)[1]
    /\ todo' = Tail(todo)
    /\ UNCHANGED <<serialVars, calfile, header, year_pre, pc, calibrations, df_pre, df_post,
                   calibration_data, read_log, selected, exception, stdout, correctionVars,
                   reader_call, batchVars>>

\* mutant of Correct: the copy to f'{variable}_raw' is made before the test
Correct_raw_in_both_branches ==
    /\ pc = "correct"
    /\ todo # << >>
    /\ Head(todo)[1] \in DOMAIN calibration_data
    /\ variable' = Head(todo)[1]
    /\ todo' = Tail(todo)
    /\ LET v == Head(todo)[1]
           r == interpolate_deviation(calibration_data[v], data, v)
       IN  /\ calibration_data' = [calibration_data EXCEPT ![v] = with_time_num(@)]
           /\ exception' = r.exc
           /\ IF r.exc # "none"
              THEN /\ pc' = "raised"
                   /\ UNCHANGED correctionVars
              ELSE /\ pc' = pc
                   /\ IF exceeds(calibration_data[v], v)
                      THEN /\ drift_correction' = (v :> TRUE) @@ drift_correction
                           /\ data' = apply_correction(store_deviation(data, v, r.deviation),
                                                       v, r.deviation)
                      ELSE /\ drift_correction' = (v :> FALSE) @@ drift_correction
                           /\ data' = set_column(store_deviation(data, v, r.deviation),
                                                 fstr(v, "_raw"), data[v])
    /\ UNCHANGED <<serialVars, calfile, header, year_pre, calibrations, df_pre, df_post, read_log,
                   selected, stdout, reader_call, batchVars>>

\* lines 302-330: the body of the loop for a variable of calibration_data
Correct ==
    /\ pc = "correct"
    /\ todo # << >>
    /\ Head(todo)[1] \in DOMAIN calibration_data
    /\ variable' = Head(todo)[1]
    /\ todo' = Tail(todo)
    /\ LET v == Head(todo)[1]
           r == interpolate_deviation(calibration_data[v], data, v)
       IN  /\ calibration_data' = [calibration_data EXCEPT ![v] = with_time_num(@)]
           /\ exception' = r.exc
           /\ IF r.exc # "none"
              THEN /\ pc' = "raised"
                   /\ UNCHANGED correctionVars
              ELSE /\ pc' = pc
                   /\ IF exceeds(calibration_data[v], v)
                      THEN /\ drift_correction' = (v :> TRUE) @@ drift_correction
                           /\ data' = apply_correction(store_deviation(data, v, r.deviation),
                                                       v, r.deviation)
                      ELSE /\ drift_correction' = (v :> FALSE) @@ drift_correction
                           /\ data' = store_deviation(data, v, r.deviation)
    /\ UNCHANGED <<serialVars, calfile, header, year_pre, calibrations, df_pre, df_post, read_log,
                   selected, stdout, reader_call, batchVars>>

\* line 332
CorrectReturn ==
    /\ pc = "correct"
    /\ todo = << >>
    /\ pc' = "corrected"
    /\ UNCHANGED <<serialVars, calfile, selectionVars, exception, stdout, correctionVars, reader_call,
                   batchVars>>

NextProcess ==
    \/ Next
    \/ ManageDriftCorrection
    \/ CorrectSkip
    \/ Correct
    \/ CorrectReturn

SpecProcess == InitProcess /\ [][NextProcess]_vars

-----------------------------------------------------------------------------
(* SpecReader: probe_calfile and read_calfile as pure functions of their arguments *)

\* a serial CALFILES_LOOKUP holds no workbook for
NoWorkbook == [exists |-> FALSE, sheets |-> << >>, deviation |-> << >>, no_standard |-> {}]

ReaderWorkbooks == Workbooks \cup {NoWorkbook}

\* the values passed as `sheet`: 'blank' or a year
ReaderSheets == {PyBlank} \cup {PyInt(y) : y \in CalYears}

\* the values passed as `variable`: the six block names and a name read_calfile rejects
ReaderVariables == Variants \cup {"pressure"}

InitReader ==
    /\ calfile \in ReaderWorkbooks
    /\ header = << >>
    /\ year_pre = PyNone
    /\ pc = "reader"
    /\ todo = << >>
    /\ variable = ""
    /\ calibrations = NoChoice
    /\ df_pre = << >>
    /\ df_post = << >>
    /\ calibration_data = << >>
    /\ read_log = << >>
    /\ selected = << >>
    /\ exception = "none"
    /\ stdout = << >>
    /\ CALFILES_LOOKUP = {}
    /\ serial = << >>
    /\ device_serial = PyNone
    /\ data = << >>
    /\ drift_correction = << >>
    /\ reader_call = NoCall
    /\ action = ""
    /\ unprocessed = << >>
    /\ run_dir = {}

\* one call of probe_calfile(device_serial, deployment_year)
ProbeCalfile ==
    /\ pc = "reader"
    /\ \E y \in CalYears :
          LET r == probe_calfile_for_serial(calfile, y)
          IN  /\ reader_call' = [fn |-> "probe_calfile", sheet |-> PyInt(y), variable |-> "",
                                 exc |-> r.exc, calfile_params |-> r.calfile_params,
                                 data |-> << >>]
              /\ exception' = r.exc
              /\ pc' = IF r.exc # "none" THEN "raised" ELSE "returned"
    /\ UNCHANGED <<serialVars, calfile, selectionVars, stdout, correctionVars, batchVars>>

\* one call of read_calfile(device_serial, sheet, variable)
ReadCalfile ==
    /\ pc = "reader"
    /\ \E sheet \in ReaderSheets, variant \in ReaderVariables :
          LET r == read_calfile(calfile, sheet, variant)
          IN  /\ reader_call' = [fn |-> "read_calfile", sheet |-> sheet, variable |-> variant,
                                 exc |-> r.exc, calfile_params |-> << >>, data |-> r.data]
              /\ exception' = r.exc
              /\ pc' = IF r.exc # "none" THEN "raised" ELSE "returned"
    /\ UNCHANGED <<serialVars, calfile, selectionVars, stdout, correctionVars, batchVars>>

\* one call of probe_calfile_single_year(device_serial); assert_serial raises for a
\* serial without workbook
ProbeCalfileSingleYear ==
    /\ pc = "reader"
    /\ LET e == IF calfile.exists THEN "none" ELSE "ValueError"
       IN  /\ reader_call' = [fn |-> "probe_calfile_single_year", exc |-> e,
                              single_year |-> IF e = "none"
                                              THEN <<probe_calfile_single_year(calfile)>>
                                              ELSE << >>]
           /\ exception' = e
           /\ pc' = IF e # "none" THEN "raised" ELSE "returned"
    /\ UNCHANGED <<serialVars, calfile, selectionVars, stdout, correctionVars, batchVars>>

NextReader ==
    \/ ProbeCalfile
    \/ ReadCalfile
    \/ ProbeCalfileSingleYear

SpecReader == InitReader /\ [][NextReader]_vars

-----------------------------------------------------------------------------
(* SpecBatch: process.py, run_actions over the unprocessed files *)

\* at most this many files in UNPROCESSED
MaxFiles == 2

\* what manage_file_type finds for the device of a file: a workbook and a `suivi` row,
\* no workbook for the serial, no `suivi` row for the device
FileKinds == {"known", "no_calfile", "no_suivi_row"}

\* the values passed as `action`
Actions == {"clean", "populate", "update", "run", "archive", "other"}

\* standard_file_name_from_input_file: the name QYY..., or the exception of
\* manage_file_type (assert_serial, reader.py:73; get_device_suivi_metadata, reader.py:163)
standard_file_name_from_input_file(file) ==
    CASE file.kind = "no_calfile"   -> [exc |-> "ValueError", name |-> 0]
      [] file.kind = "no_suivi_row" -> [exc |-> "ValueError", name |-> 0]
      [] OTHER                      -> [exc |-> "none", name |-> file.name]

\* UNPROCESSED: up to MaxFiles files, each of its own deployment
UnprocessedLists ==
    UNION {{[i \in 1..n |-> [name |-> i, kind |-> k[i]]] : k \in [1..n -> FileKinds]} :
              n \in 0..MaxFiles}

InitBatch ==
    /\ action \in Actions
    /\ unprocessed \in UnprocessedLists
    /\ run_dir \in SUBSET {unprocessed[i].name : i \in DOMAIN unprocessed}
    /\ pc = "run_actions"
    /\ exception = "none"
    /\ stdout = << >>
    /\ CALFILES_LOOKUP = {}
    /\ serial = << >>
    /\ device_serial = PyNone
    /\ calfile = NoWorkbook
    /\ header = << >>
    /\ year_pre = PyNone
    /\ todo = << >>
    /\ variable = ""
    /\ calibrations = NoChoice
    /\ df_pre = << >>
    /\ df_post = << >>
    /\ calibration_data = << >>
    /\ read_log = << >>
    /\ selected = << >>
    /\ data = << >>
    /\ drift_correction = << >>
    /\ reader_call = NoCall

\* lines 194-201: the scripts of run_dir are deleted
Clean ==
    /\ pc = "run_actions"
    /\ action = "clean"
    /\ run_dir' = {}
    /\ pc' = "returned"
    /\ UNCHANGED <<serialVars, calfile, selectionVars, exception, stdout, correctionVars, reader_call,
                   action, unprocessed>>

\* lines 202-205: one turn of the loop of 'populate'
Populate ==
    /\ pc = "run_actions"
    /\ action = "populate"
    /\ unprocessed # << >>
    /\ unprocessed' = Tail(unprocessed)
    /\ LET r == standard_file_name_from_input_file(Head(unprocessed))
       IN  /\ exception' = r.exc
           /\ pc' = IF r.exc # "none" THEN "raised" ELSE pc
           /\ run_dir' = IF r.exc # "none" THEN run_dir ELSE run_dir \cup {r.name}
    /\ UNCHANGED <<serialVars, calfile, selectionVars, stdout, correctionVars, reader_call, action>>

\* lines 206-212: one turn of the loop of 'update'
Update ==
    /\ pc = "run_actions"
    /\ action = "update"
    /\ unprocessed # << >>
    /\ unprocessed' = Tail(unprocessed)
    /\ LET r == standard_file_name_from_input_file(Head(unprocessed))
       IN  /\ exception' = r.exc
           /\ pc' = IF r.exc # "none" THEN "raised" ELSE pc
           /\ run_dir' = IF r.exc # "none" THEN run_dir ELSE run_dir \cup {r.name}
           /\ stdout' = IF r.exc = "none" /\ r.name \notin run_dir
                        THEN Append(stdout, [message |-> "generating", name |-> r.name])
                        ELSE stdout
    /\ UNCHANGED <<serialVars, calfile, selectionVars, correctionVars, reader_call, action>>

\* the for loop of 'populate' or 'update' has visited every file; line 222
LoopEnd ==
    /\ pc = "run_actions"
    /\ action \in {"populate", "update"}
    /\ unprocessed = << >>
    /\ pc' = "returned"
    /\ UNCHANGED <<serialVars, calfile, selectionVars, exception, stdout, correctionVars, reader_call,
                   batchVars>>

\* lines 213-215: 'run' executes nothing
Run ==
    /\ pc = "run_actions"
    /\ action = "run"
    /\ pc' = "returned"
    /\ UNCHANGED <<serialVars, calfile, selectionVars, exception, stdout, correctionVars, reader_call,
                   batchVars>>

\* lines 216-220: 'archive' and any other action raise
Reject ==
    /\ pc = "run_actions"
    /\ action \in {"archive", "other"}
    /\ exception' = IF action = "archive" THEN "NotImplementedError" ELSE "ValueError"
    /\ pc' = "raised"
    /\ UNCHANGED <<serialVars, calfile, selectionVars, stdout, correctionVars, reader_call, batchVars>>

NextBatch ==
    \/ Clean
    \/ Populate
    \/ Update
    \/ LoopEnd
    \/ Run
    \/ Reject

SpecBatch == InitBatch /\ [][NextBatch]_vars

-----------------------------------------------------------------------------
(* SpecSerial: the device serial from the metadata to the reader *)

\* a device number has at most this many digits
MaxSerialLen == 3

\* at most this many calibration workbooks on disk
MaxDevices == 2

\* the digits a device number is written with
Digits == {0, 1}

\* the device numbers: the digit strings of extract_serial (__init__.py)
DeviceNumbers == UNION {[1..n -> Digits] : n \in 1..MaxSerialLen}

\* int(s) of a string of digits
RECURSIVE int(_)
int(s) == IF s = << >> THEN 0
          ELSE 10 * int(SubSeq(s, 1, Len(s) - 1)) + s[Len(s)]

\* str(n) of a non-negative int
RECURSIVE str(_)
str(n) == IF n < 10 THEN <<n>> ELSE Append(str(n \div 10), n % 10)

\* str(device_serial) as the functions of reader.py apply it to their argument
str_of(x) == IF x.type = "int" THEN str(x.val) ELSE x.val

\* serial[3:]
inst_num_of(s) == SubSeq(s, 4, Len(s))

\* assert_serial(device_serial), one leading zero stripped from an unknown serial
assert_serial(s, lookup) ==
    IF s \in lookup THEN [exc |-> "none", asserted |-> s]
    ELSE IF s # << >> /\ Head(s) = 0 /\ Tail(s) \in lookup
         THEN [exc |-> "none", asserted |-> Tail(s)]
    ELSE [exc |-> "ValueError", asserted |-> << >>]

\* standard_header['device_serial'] = int(serial[3:])
header_device_serial(s) == PyInt(int(inst_num_of(s)))

\* the membership test that opens probe_calfile and read_calfile
calfile_lookup(x, lookup) ==
    IF str_of(x) \in lookup THEN "none" ELSE "FileNotFoundError"

\* a call of a reader.py function with the device serial it looked up
SerialCall(f, x, e) ==
    [fn |-> f, device_serial |-> str_of(x), exc |-> e]

InitSerial ==
    /\ CALFILES_LOOKUP \in {L \in SUBSET DeviceNumbers : Cardinality(L) <= MaxDevices}
    /\ serial \in {<<0, 5, 6>> \o n : n \in DeviceNumbers}
    /\ device_serial = PyNone
    /\ pc = "manage_file_type"
    /\ exception = "none"
    /\ stdout = << >>
    /\ calfile = NoWorkbook
    /\ header = << >>
    /\ year_pre = PyNone
    /\ todo = << >>
    /\ variable = ""
    /\ calibrations = NoChoice
    /\ df_pre = << >>
    /\ df_post = << >>
    /\ calibration_data = << >>
    /\ read_log = << >>
    /\ selected = << >>
    /\ data = << >>
    /\ drift_correction = << >>
    /\ reader_call = NoCall
    /\ action = ""
    /\ unprocessed = << >>
    /\ run_dir = {}

\* input.py line 45: get_device_suivi_metadata(serial, year); the `suivi` sheet of the
\* year has a row for the device or not
GetDeviceSuiviMetadata ==
    /\ pc = "manage_file_type"
    /\ \E row \in BOOLEAN :
          LET a == assert_serial(inst_num_of(serial), CALFILES_LOOKUP)
              e == IF a.exc # "none" THEN a.exc
                   ELSE IF ~row THEN "ValueError" ELSE "none"
          IN  /\ exception' = e
              /\ pc' = IF e # "none" THEN "raised" ELSE "suivi"
    /\ UNCHANGED <<serialVars, calfile, selectionVars, stdout, correctionVars, reader_call,
                   batchVars>>

\* input.py line 130
SetDeviceSerial ==
    /\ pc = "suivi"
    /\ device_serial' = header_device_serial(serial)
    /\ pc' = "header"
    /\ UNCHANGED <<CALFILES_LOOKUP, serial, calfile, selectionVars, exception, stdout,
                   correctionVars, reader_call, batchVars>>

\* input.py lines 152-154: probe_calfile(standard_header['device_serial'], year)
ProbeCalibrations ==
    /\ pc = "header"
    /\ LET e == calfile_lookup(device_serial, CALFILES_LOOKUP)
       IN  /\ reader_call' = SerialCall("probe_calfile", device_serial, e)
           /\ exception' = e
           /\ pc' = IF e # "none" THEN "raised" ELSE "probed"
    /\ UNCHANGED <<serialVars, calfile, selectionVars, stdout, correctionVars, batchVars>>

\* drift.py lines 63, 72: read_calfile(header['device_serial'], ...)
ReadCalibrations ==
    /\ pc = "probed"
    /\ LET e == calfile_lookup(device_serial, CALFILES_LOOKUP)
       IN  /\ reader_call' = SerialCall("read_calfile", device_serial, e)
           /\ exception' = e
           /\ pc' = IF e # "none" THEN "raised" ELSE "retrieved"
    /\ UNCHANGED <<serialVars, calfile, selectionVars, stdout, correctionVars, batchVars>>

NextSerial ==
    \/ GetDeviceSuiviMetadata
    \/ SetDeviceSerial
    \/ ProbeCalibrations
    \/ ReadCalibrations

SpecSerial == InitSerial /\ [][NextSerial]_vars

-----------------------------------------------------------------------------
(* Vocabulary of the selector's contract (spec section 4.2) *)

TD == {"temperature", "depth"}

SC == {"salinity", "conductivity"}

Y == DeploymentYear

\* the selector has returned a choice dictionary
Returned == pc = "returned" /\ calibrations.exc = "none"

\* the calibration switch of a variant, written out
SwitchOf(variant) ==
    CASE variant = "temperature"        -> "temperature_calibration"
      [] variant = "depth"              -> "depth_calibration"
      [] variant = "salinity_raw"       -> "salinity_raw_calibration"
      [] variant = "salinity_clean"     -> "salinity_clean_calibration"
      [] variant = "conductivity_raw"   -> "conductivity_raw_calibration"
      [] variant = "conductivity_clean" -> "conductivity_clean_calibration"

RawOf(v) == IF v = "salinity" THEN "salinity_raw" ELSE "conductivity_raw"

CleanOf(v) == IF v = "salinity" THEN "salinity_clean" ELSE "conductivity_clean"

\* the variant whose availability makes a post year eligible
PostVariant(v) == IF v \in TD THEN v ELSE RawOf(v)

\* availability of a variant in a year of the header's window
Avail(variant, y) == header.mli_calibration[y][SwitchOf(variant)]

\* a user-forced year is supplied and the variant is available in it
UserAvail(variant) ==
    /\ IsInt(year_pre)
    /\ year_pre.val \in DOMAIN calfile.sheets
    /\ calfile.sheets[year_pre.val][SwitchOf(variant)]

SingleCalibrationOnly == header.single_year = <<TRUE>>

\* some post year is eligible
PostAvail(v) == Avail(PostVariant(v), Y) \/ Avail(PostVariant(v), Y + 1)

-----------------------------------------------------------------------------
(* C1: reference ordered fallback table *)

\* post candidates, in order
RefPosts(v) ==
    << [variant |-> PostVariant(v), src |-> "year", sheet |-> PyInt(Y)],
       [variant |-> PostVariant(v), src |-> "year", sheet |-> PyInt(Y + 1)] >>

\* pre candidates, in order
RefPres(v) ==
    IF v \in TD
    THEN << [variant |-> v, src |-> "user",  sheet |-> year_pre],
            [variant |-> v, src |-> "year",  sheet |-> PyInt(Y - 1)],
            [variant |-> v, src |-> "year",  sheet |-> PyInt(Y - 2)],
            [variant |-> v, src |-> "blank", sheet |-> PyBlank] >>
    ELSE << [variant |-> CleanOf(v), src |-> "user",  sheet |-> year_pre],
            [variant |-> RawOf(v),   src |-> "user",  sheet |-> year_pre],
            [variant |-> CleanOf(v), src |-> "year",  sheet |-> PyInt(Y - 1)],
            [variant |-> RawOf(v),   src |-> "year",  sheet |-> PyInt(Y - 1)],
            [variant |-> CleanOf(v), src |-> "year",  sheet |-> PyInt(Y - 2)],
            [variant |-> RawOf(v),   src |-> "year",  sheet |-> PyInt(Y - 2)],
            [variant |-> RawOf(v),   src |-> "blank", sheet |-> PyBlank] >>

RefMatches(c) ==
    CASE c.src = "user"  -> UserAvail(c.variant)
      [] c.src = "year"  -> Avail(c.variant, c.sheet.val)
      [] c.src = "blank" -> SingleCalibrationOnly

\* index of the first matching candidate, 0 when none matches
RefFirst(cands) ==
    LET hits == {i \in 1..Len(cands) : RefMatches(cands[i])}
    IN  IF hits = {} THEN 0 ELSE CHOOSE i \in hits : \A j \in hits : i <= j

\* the choice the documented fallback order prescribes
Reference(v) ==
    IF v = "pressure"
    THEN [ok |-> FALSE, pre |-> << >>, post |-> << >>]
    ELSE LET p == RefFirst(RefPosts(v))
             q == RefFirst(RefPres(v))
         IN  IF p = 0 \/ q = 0
             THEN [ok |-> FALSE, pre |-> << >>, post |-> << >>]
             ELSE [ok   |-> TRUE,
                   pre  |-> <<RefPres(v)[q].variant, RefPres(v)[q].sheet>>,
                   post |-> <<RefPosts(v)[p].variant, RefPosts(v)[p].sheet>>]

\* C1: for every variable, availability window, single-calibration flag and user-forced
\* year, the selector returns ok=false exactly when no candidate of the documented
\* fallback order matches, and otherwise the choice of the reference fallback table.
C1_SelectorMatchesReference ==
    pc = "returned" =>
        /\ calibrations.exc = "none"
        /\ calibrations.ok = Reference(variable).ok
        /\ calibrations.ok =>
              /\ calibrations.pre = Reference(variable).pre
              /\ calibrations.post = Reference(variable).post

\* a salinity selection that went down to the sixth pre candidate of the second post year
C1_Witness ==
    /\ Returned
    /\ variable = "salinity"
    /\ calibrations.ok
    /\ calibrations.pre = <<"salinity_raw", PyInt(Y - 2)>>
    /\ calibrations.post = <<"salinity_raw", PyInt(Y + 1)>>
    /\ IsInt(year_pre)

-----------------------------------------------------------------------------
(* C2: pre-candidate order for temperature and depth *)

\* C2: for temperature and depth with an eligible post year, the pre source is the
\* first match of: user-forced year (supplied and available), year-1, year-2, 'blank'
\* gated on the single-calibration flag; with no match the result is ok=false.
C2_PreOrderTD ==
    (pc = "returned" /\ variable \in TD /\ PostAvail(variable)) =>
        LET v  == variable
            u  == UserAvail(v)
            a1 == Avail(v, Y - 1)
            a2 == Avail(v, Y - 2)
            sg == SingleCalibrationOnly
        IN  /\ calibrations.exc = "none"
            /\ u => calibrations.ok /\ calibrations.pre = <<v, year_pre>>
            /\ (~u /\ a1) => calibrations.ok /\ calibrations.pre = <<v, PyInt(Y - 1)>>
            /\ (~u /\ ~a1 /\ a2) =>
                   calibrations.ok /\ calibrations.pre = <<v, PyInt(Y - 2)>>
            /\ (~u /\ ~a1 /\ ~a2 /\ sg) =>
                   calibrations.ok /\ calibrations.pre = <<v, PyBlank>>
            /\ (~u /\ ~a1 /\ ~a2 /\ ~sg) => ~calibrations.ok

\* availability {year: true, year-1: false, year-2: true}, a supplied but unavailable
\* user year and the single-calibration flag set: pre = year-2, post = year
C2_Witness ==
    /\ Returned
    /\ variable = "temperature"
    /\ Avail("temperature", Y) /\ ~Avail("temperature", Y - 1) /\ Avail("temperature", Y - 2)
    /\ IsInt(year_pre) /\ ~UserAvail("temperature")
    /\ SingleCalibrationOnly
    /\ calibrations.ok
    /\ calibrations.pre = <<"temperature", PyInt(Y - 2)>>
    /\ calibrations.post = <<"temperature", PyInt(Y)>>

-----------------------------------------------------------------------------
(* C3: post year *)

\* C3: the post year is deployment_year when the variable's (raw) calibration is
\* available for it, deployment_year+1 only when it is not and year+1 is available;
\* with no pre candidate for that post year, or no post year at all, ok=false.
C3_PostYearRule ==
    (pc = "returned" /\ variable \in TD \cup SC) =>
        LET pv == PostVariant(variable)
        IN  /\ calibrations.exc = "none"
            /\ calibrations.ok =>
                  /\ PostAvail(variable)
                  /\ calibrations.post[2] = PyInt(IF Avail(pv, Y) THEN Y ELSE Y + 1)
            /\ (~Avail(pv, Y) /\ ~Avail(pv, Y + 1)) => ~calibrations.ok
            /\ RefFirst(RefPres(variable)) = 0 => ~calibrations.ok

\* depth calibrated late: nothing for the deployment year, post = year + 1
C3_Witness ==
    /\ Returned
    /\ variable = "depth"
    /\ ~Avail("depth", Y) /\ Avail("depth", Y + 1)
    /\ calibrations.ok
    /\ calibrations.post = <<"depth", PyInt(Y + 1)>>

-----------------------------------------------------------------------------
(* C4: pre-candidate order for salinity and conductivity *)

\* C4: for salinity and conductivity with an eligible post year, the pre source is the
\* first match of: user-clean, user-raw, (year-1)-clean, (year-1)-raw, (year-2)-clean,
\* (year-2)-raw, 'blank' gated on the single-calibration flag.
C4_PreOrderSC ==
    (pc = "returned" /\ variable \in SC /\ PostAvail(variable)) =>
        LET c  == CleanOf(variable)
            r  == RawOf(variable)
            uc == UserAvail(c)
            ur == UserAvail(r)
            c1 == Avail(c, Y - 1)
            r1 == Avail(r, Y - 1)
            c2 == Avail(c, Y - 2)
            r2 == Avail(r, Y - 2)
            n1 == ~uc /\ ~ur /\ ~c1 /\ ~r1
            sg == SingleCalibrationOnly
        IN  /\ calibrations.exc = "none"
            /\ uc => calibrations.ok /\ calibrations.pre = <<c, year_pre>>
            /\ (~uc /\ ur) => calibrations.ok /\ calibrations.pre = <<r, year_pre>>
            /\ (~uc /\ ~ur /\ c1) =>
                   calibrations.ok /\ calibrations.pre = <<c, PyInt(Y - 1)>>
            /\ (~uc /\ ~ur /\ ~c1 /\ r1) =>
                   calibrations.ok /\ calibrations.pre = <<r, PyInt(Y - 1)>>
            /\ (n1 /\ c2) => calibrations.ok /\ calibrations.pre = <<c, PyInt(Y - 2)>>
            /\ (n1 /\ ~c2 /\ r2) =>
                   calibrations.ok /\ calibrations.pre = <<r, PyInt(Y - 2)>>
            /\ (n1 /\ ~c2 /\ ~r2 /\ sg) =>
                   calibrations.ok /\ calibrations.pre = <<r, PyBlank>>
            /\ (n1 /\ ~c2 /\ ~r2 /\ ~sg) => ~calibrations.ok

\* only the raw calibration of year-1 is available while year-2 has a clean one:
\* the raw variant of year-1 is chosen before the older year
C4_Witness ==
    /\ Returned
    /\ variable = "conductivity"
    /\ ~UserAvail("conductivity_clean") /\ ~UserAvail("conductivity_raw")
    /\ ~Avail("conductivity_clean", Y - 1) /\ Avail("conductivity_raw", Y - 1)
    /\ Avail("conductivity_clean", Y - 2)
    /\ calibrations.ok
    /\ calibrations.pre = <<"conductivity_raw", PyInt(Y - 1)>>

-----------------------------------------------------------------------------
(* C5: post is always the raw variant *)

\* C5: for salinity and conductivity every ok=true result has the '_raw' variant of the
\* variable as post source, in a year whose raw calibration is available; clean
\* calibrations of the post years alone never give ok=true.
C5_PostAlwaysRaw ==
    (pc = "returned" /\ variable \in SC) =>
        LET r == RawOf(variable)
        IN  /\ calibrations.ok =>
                  /\ calibrations.post[1] = r
                  /\ IsInt(calibrations.post[2])
                  /\ Avail(r, calibrations.post[2].val)
            /\ (~Avail(r, Y) /\ ~Avail(r, Y + 1)) => ~calibrations.ok

\* the deployment year has a clean salinity calibration only: post is the raw one of year+1
C5_Witness ==
    /\ Returned
    /\ variable = "salinity"
    /\ Avail("salinity_clean", Y) /\ ~Avail("salinity_raw", Y)
    /\ calibrations.ok
    /\ calibrations.post = <<"salinity_raw", PyInt(Y + 1)>>

-----------------------------------------------------------------------------
(* C6: new device *)

\* no calibration of the variable is available in year-1 and year-2
NoPreYear(v) ==
    CASE v \in TD -> ~Avail(v, Y - 1) /\ ~Avail(v, Y - 2)
      [] v \in SC -> /\ ~Avail(CleanOf(v), Y - 1) /\ ~Avail(RawOf(v), Y - 1)
                     /\ ~Avail(CleanOf(v), Y - 2) /\ ~Avail(RawOf(v), Y - 2)
      [] OTHER    -> TRUE

\* C6 as stated: single_calibration_only, no pre-year availability and no user-forced
\* year yield pre=("blank", "blank") and never ok=false.
C6_Original ==
    (pc = "returned" /\ SingleCalibrationOnly /\ year_pre = PyNone /\ NoPreYear(variable)) =>
        /\ calibrations.ok
        /\ calibrations.pre = <<"blank", PyBlank>>

\* C6 amended: single_calibration_only, no pre-year availability and no user-forced
\* year yield ok=true with pre=(variant, 'blank') - the variable itself for temperature
\* and depth, '<variable>_raw' for salinity and conductivity - when a post year is
\* eligible; for pressure, and when no post year is eligible, the result is ok=false.
C6_BlankOnNewDevice ==
    (pc = "returned" /\ SingleCalibrationOnly /\ year_pre = PyNone /\ NoPreYear(variable)) =>
        IF variable \in TD \cup SC /\ PostAvail(variable)
        THEN /\ calibrations.exc = "none"
             /\ calibrations.ok
             /\ calibrations.pre = <<PostVariant(variable), PyBlank>>
        ELSE /\ calibrations.exc = "none"
             /\ ~calibrations.ok

\* new device whose only calibration is the temperature one of the deployment year
C6_Witness ==
    /\ Returned
    /\ variable = "temperature"
    /\ SingleCalibrationOnly /\ year_pre = PyNone /\ NoPreYear("temperature")
    /\ Avail("temperature", Y) /\ ~Avail("temperature", Y + 1)
    /\ calibrations.ok
    /\ calibrations.pre = <<"temperature", PyBlank>>
    /\ calibrations.post = <<"temperature", PyInt(Y)>>

-----------------------------------------------------------------------------
(* C7: pressure *)

\* C7: for pressure the selector returns ok=false, with no pre and no post year,
\* whatever the availability window, the single-calibration flag and the user year.
C7_PressureNeverOk ==
    (pc = "returned" /\ variable = "pressure") =>
        /\ calibrations.exc = "none"
        /\ ~calibrations.ok
        /\ calibrations.pre[2] = PyNone
        /\ calibrations.post[2] = PyNone

\* pressure with the pressure-sensor (depth) block calibrated in every year of the
\* window, on a single-calibration header, with a user year
C7_Witness ==
    /\ Returned
    /\ variable = "pressure"
    /\ \A y \in Window : header.mli_calibration[y]["depth_calibration"]
    /\ SingleCalibrationOnly
    /\ IsInt(year_pre)
    /\ ~calibrations.ok

-----------------------------------------------------------------------------
(* C8: the selector raises no exception *)

\* C8: for every variable get_calibration_data passes to the selector (every key of
\* header['data_source'] classified 'observation') the selector returns a choice
\* dictionary; it raises no exception.
C8_SelectorNeverRaises ==
    \A v \in DOMAIN selected : selected[v].exc = "none"

-----------------------------------------------------------------------------
(* C9: an ok=false choice never reaches read_calfile *)

-----------------------------------------------------------------------------
(* C10: the 'deployment' marker of a blank pre-table is resolved *)

-----------------------------------------------------------------------------
(* Claims on the readers (spec sections 4.1 and 4.3) *)

\* probe_calfile was called and has returned or raised
Probed == reader_call.fn = "probe_calfile"

\* read_calfile was called with a year as sheet and one of the six block names
ReadOfYear ==
    /\ reader_call.fn = "read_calfile"
    /\ IsInt(reader_call.sheet)
    /\ reader_call.variable \in Variants

\* C18: probe_calfile for a device that has a workbook but no sheet for the requested
\* year raises nothing and returns every switch, 'calibration_exists' included, False.
C18_ProbeNoSheet ==
    (Probed /\ calfile.exists /\ reader_call.sheet.val \notin DOMAIN calfile.sheets)
        => /\ reader_call.exc = "none"
           /\ pc = "returned"
           /\ DOMAIN reader_call.calfile_params = FlagNames \cup {"calibration_exists"}
           /\ \A k \in DOMAIN reader_call.calfile_params : ~reader_call.calfile_params[k]

\* the workbook has sheets, none for the requested year
C18_Witness ==
    /\ Probed
    /\ calfile.exists
    /\ DOMAIN calfile.sheets # {}
    /\ reader_call.sheet.val \notin DOMAIN calfile.sheets
    /\ reader_call.exc = "none"

\* C19: probe_calfile for a device that has no workbook raises FileNotFoundError and
\* returns no switches, whatever year is requested.
C19_ProbeNoWorkbook ==
    (Probed /\ ~calfile.exists)
        => /\ reader_call.exc = "FileNotFoundError"
           /\ exception = "FileNotFoundError"
           /\ pc = "raised"
           /\ reader_call.calfile_params = << >>

C19_Witness ==
    /\ Probed
    /\ ~calfile.exists
    /\ reader_call.exc = "FileNotFoundError"

\* C20: read_calfile called with a block name and a year raises, and returns no
\* table, when the device has no workbook (FileNotFoundError) or the workbook has no
\* sheet for that year (ValueError).
C20_ReadFails ==
    ReadOfYear =>
        /\ ~calfile.exists
              => reader_call.exc = "FileNotFoundError" /\ reader_call.data = << >>
        /\ (calfile.exists /\ reader_call.sheet.val \notin DOMAIN calfile.sheets)
              => reader_call.exc = "ValueError" /\ reader_call.data = << >>
        /\ reader_call.exc # "none" => pc = "raised"

\* the workbook exists and lacks the requested year's sheet
C20_Witness ==
    /\ ReadOfYear
    /\ calfile.exists
    /\ DOMAIN calfile.sheets # {}
    /\ reader_call.sheet.val \notin DOMAIN calfile.sheets
    /\ reader_call.exc = "ValueError"

-----------------------------------------------------------------------------
(* Claims on the correction decision and its application (spec sections 4.5 and 7) *)

\* the thresholds as documented, in thousandths: 0.01, 0.05, 0.009, 1.0
DocumentedThreshold(v) ==
    CASE v = "temperature"  -> 10
      [] v = "salinity"     -> 50
      [] v = "conductivity" -> 9
      [] v = "depth"        -> 1000

\* the absolute deviations of the calibration points of v's bracketing table
AbsDeviations(v) ==
    {IF calibration_data[v][i].deviation < 0
     THEN 0 - calibration_data[v][i].deviation
     ELSE calibration_data[v][i].deviation : i \in DOMAIN calibration_data[v]}

\* some calibration point of v, pre or post, deviates by more than the threshold
SomePointAbove(v) == \E d \in AbsDeviations(v) : d > DocumentedThreshold(v)

\* the largest absolute deviation of v's calibration points is the threshold itself
LargestAtThreshold(v) ==
    /\ \E d \in AbsDeviations(v) : d = DocumentedThreshold(v)
    /\ \A d \in AbsDeviations(v) : d <= DocumentedThreshold(v)

\* the names of the columns manage_drift_correction adds for v
RawColumn(v) ==
    CASE v = "temperature"  -> "temperature_raw"
      [] v = "salinity"     -> "salinity_raw"
      [] v = "conductivity" -> "conductivity_raw"
      [] v = "depth"        -> "depth_raw"
      [] OTHER              -> "pressure_raw"

DeviationColumn(v) ==
    CASE v = "temperature"  -> "temperature_deviation"
      [] v = "salinity"     -> "salinity_deviation"
      [] v = "conductivity" -> "conductivity_deviation"
      [] v = "depth"        -> "depth_deviation"
      [] OTHER              -> "pressure_deviation"

\* float arithmetic: nan absorbs
Plus(a, b) == IF a.nan \/ b.nan THEN [nan |-> TRUE, val |-> 0]
              ELSE [nan |-> FALSE, val |-> a.val + b.val]

Minus(a, b) == IF a.nan \/ b.nan THEN [nan |-> TRUE, val |-> 0]
               ELSE [nan |-> FALSE, val |-> a.val - b.val]

\* the loop of manage_drift_correction has just handled v
JustDecided(v) == v \in DOMAIN drift_correction' /\ v \notin DOMAIN drift_correction

\* the series of v as observed, before any correction
Observed(v) == IF v \in DOMAIN drift_correction /\ drift_correction[v]
               THEN data[RawColumn(v)]
               ELSE data[v]

C12_CorrectedWhenExceeded ==
    [][\A v \in DOMAIN calibration_data :
          (JustDecided(v) /\ SomePointAbove(v)) =>
              /\ drift_correction'[v]
              /\ RawColumn(v) \in DOMAIN data'
              /\ data'[RawColumn(v)] = data[v]
              /\ DOMAIN data'[v] = DOMAIN data[v]
              /\ \A i \in DOMAIN data[v] :
                    data'[v][i] =
                        Plus(data[v][i],
                             interpolate_deviation(calibration_data[v], data, v).deviation[i])]_vars

\* a corrected variable, the deviation exceeding the threshold in the post-deployment
\* block only, and an observation whose value changed
C12_Witness ==
    \E v \in DOMAIN drift_correction :
        /\ drift_correction[v]
        /\ \E i, j \in DOMAIN calibration_data[v] :
              /\ calibration_data[v][i].time_num < calibration_data[v][j].time_num
              /\ calibration_data[v][i].deviation <= DocumentedThreshold(v)
              /\ calibration_data[v][i].deviation >= 0 - DocumentedThreshold(v)
        /\ \E i \in DOMAIN data[v] :
              ~data[v][i].nan /\ data[v][i] # data[RawColumn(v)][i]

\* C13: when no calibration point deviates in absolute value by more than the threshold,
\* the variable is recorded False, and from then on its series holds the values it held
\* and no '<variable>_raw' column exists.
C13_UnchangedWhenNotExceeded ==
    [][\A v \in DOMAIN drift_correction' :
          ~SomePointAbove(v) =>
              /\ ~drift_correction'[v]
              /\ data'[v] = data[v]
              /\ RawColumn(v) \notin DOMAIN data']_vars

\* the run has ended with a variable left uncorrected
C13_Witness ==
    /\ pc = "corrected"
    /\ \E v \in DOMAIN drift_correction :
          /\ ~drift_correction[v]
          /\ ~SomePointAbove(v)
          /\ RawColumn(v) \notin DOMAIN data

\* C14: every variable that has a bracketing table gets, whether or not it is
\* corrected, the column '<variable>_deviation' holding one interpolated deviation per
\* observation, in the order of the observations.
C14_DeviationStored ==
    /\ \A v \in DOMAIN drift_correction :
          /\ v \in DOMAIN calibration_data
          /\ DeviationColumn(v) \in DOMAIN data
          /\ DOMAIN data[DeviationColumn(v)] = DOMAIN data["time"]
          /\ \A i \in DOMAIN data["time"] :
                data[DeviationColumn(v)][i] =
                    interpolant(notnull(calibration_data[v]), data["time"][i].t, Observed(v)[i])
    /\ pc = "corrected" => DOMAIN drift_correction = DOMAIN calibration_data

\* the run has ended with an uncorrected variable whose deviations are stored, one of
\* them not-a-number
C14_Witness ==
    /\ pc = "corrected"
    /\ \E v \in DOMAIN drift_correction :
          /\ ~drift_correction[v]
          /\ \E i, j \in DOMAIN data[DeviationColumn(v)] :
                data[DeviationColumn(v)][i].nan /\ ~data[DeviationColumn(v)][j].nan

\* the round trip as stated: corrected - deviation = raw at every observation
C15_Original ==
    \A v \in DOMAIN drift_correction :
        drift_correction[v] =>
            \A i \in DOMAIN data[v] :
                Minus(data[v][i], data[DeviationColumn(v)][i]) = data[RawColumn(v)][i]

\* C15: for every corrected variable, the corrected series minus the stored deviation
\* equals the '<variable>_raw' copy at every observation whose interpolated deviation is
\* a number; where the deviation is not-a-number, so is the corrected value.
C15_RoundTrip ==
    \A v \in DOMAIN drift_correction :
        drift_correction[v] =>
            \A i \in DOMAIN data[v] :
                IF data[DeviationColumn(v)][i].nan
                THEN data[v][i].nan
                ELSE Minus(data[v][i], data[DeviationColumn(v)][i]) = data[RawColumn(v)][i]

\* a corrected variable with a non-zero deviation at one observation and not-a-number
\* at another whose observed value is a number
C15_Witness ==
    \E v \in DOMAIN drift_correction :
        /\ drift_correction[v]
        /\ \E i, j \in DOMAIN data[v] :
              /\ ~data[DeviationColumn(v)][i].nan
              /\ data[DeviationColumn(v)][i].val # 0
              /\ data[DeviationColumn(v)][j].nan
              /\ ~data[RawColumn(v)][j].nan

\* the selector returned ok = False for v
NoBracket(v) == v \in DOMAIN selected /\ selected[v].exc = "none" /\ ~selected[v].ok

-----------------------------------------------------------------------------
(* Claim on the batch (spec section 7) *)

\* C17: while run_actions works through the unprocessed files, the failure of one
\* deployment never ends the run: no exception leaves the loop, and no file is left
\* unvisited behind a failure.
C17_BatchContinues ==
    action \in {"populate", "update"} =>
        /\ exception = "none"
        /\ pc = "raised" => unprocessed = << >>

-----------------------------------------------------------------------------
(* Claims on the blank table, the header and the selector's results *)

\* C21: read_calfile called with 'blank' and one of the six block names, for a device
\* that has a workbook, returns nrows rows whose standard, instrument and deviation are
\* zero and whose time is the string 'deployment', whatever sheets the workbook holds.
C21_BlankTable ==
    (reader_call.fn = "read_calfile" /\ reader_call.sheet = PyBlank
        /\ reader_call.variable \in Variants /\ calfile.exists)
        => /\ reader_call.exc = "none"
           /\ Len(reader_call.data) = nrows_of(reader_call.variable)
           /\ \A i \in DOMAIN reader_call.data :
                 /\ reader_call.data[i].standard = [nan |-> FALSE, val |-> 0]
                 /\ reader_call.data[i].instrument = 0
                 /\ reader_call.data[i].deviation = 0
                 /\ reader_call.data[i].time = [kind |-> "deployment", t |-> 0]

\* a blank table read from a workbook that holds sheets with other deviations
C21_Witness ==
    /\ reader_call.fn = "read_calfile"
    /\ reader_call.sheet = PyBlank
    /\ reader_call.variable = "depth"
    /\ DOMAIN calfile.sheets # {}
    /\ Len(reader_call.data) = 10

\* the distinct calibration coordinates of a table that are not missing
Coordinates(table) ==
    {table[i].standard.val : i \in {j \in DOMAIN table : table[j].standard # [nan |-> TRUE, val |-> 0]}}

\* C22: a bracketing table with fewer than two distinct, non-missing calibration
\* coordinates does not abort the deployment: the run does not end with an exception
\* at the variable of such a table.
C22_DegenerateTableTolerated ==
    \A v \in DOMAIN calibration_data :
        Cardinality(Coordinates(calibration_data[v])) < 2
            => ~(pc = "raised" /\ variable = v)

\* observation i of v lies outside the bounding box of the calibration points of its
\* table, hence outside their convex hull
OutsideHull(v, i) ==
    LET days == {calibration_data[v][j].time.t : j \in DOMAIN calibration_data[v]}
        x == Observed(v)[i]
        t == data["time"][i].t
    IN  /\ x # [nan |-> TRUE, val |-> 0]
        /\ \/ \A d \in days : t < d
           \/ \A d \in days : t > d
           \/ \A c \in Coordinates(calibration_data[v]) : x.val < c
           \/ \A c \in Coordinates(calibration_data[v]) : x.val > c

\* a message on stdout tells the operator about the not-a-number deviations of v
NaNReported(v) ==
    \E k \in DOMAIN stdout :
        stdout[k].variable = v /\ stdout[k].message # "No valid calibration case for"

\* C23: an observation outside the convex hull of the calibration coordinates has
\* not-a-number, never zero, in the deviation series; the corrected value is
\* not-a-number too when the correction is applied; the occurrences are reported to the
\* operator; the run does not end with an exception at that variable.
C23_OutsideHullReported ==
    \A v \in DOMAIN drift_correction :
        \A i \in DOMAIN data["time"] :
            OutsideHull(v, i)
                => /\ data[DeviationColumn(v)][i] = [nan |-> TRUE, val |-> 0]
                   /\ drift_correction[v] => data[v][i] = [nan |-> TRUE, val |-> 0]
                   /\ ~(pc = "raised" /\ variable = v)
                   /\ NaNReported(v)

\* C24: the header handed to the selector has the availability facts of every year of
\* {year - 2 .. year + 1}, of the user-forced year, and the single-calibration flag,
\* and no availability lookup of the selector is undefined on it.
C24_LookupsDefined ==
    \A v \in DOMAIN selected :
        /\ \A y \in (Y - 2)..(Y + 1) : y \in DOMAIN header.mli_calibration
        /\ year_pre.type = "int" => year_pre.val \in DOMAIN header.mli_calibration
        /\ Len(header.single_year) = 1
        /\ selected[v].exc # "KeyError"

\* the device number as ingested: the serial of the metadata after its three-digit
\* instrument type
Ingested == SubSeq(serial, 4, Len(serial))

\* the ingested number, one leading zero stripped when only that is a known serial
Normalized == IF Ingested \in CALFILES_LOOKUP THEN Ingested ELSE Tail(Ingested)

\* C25: the device identifier the probe and the retriever look up is the string that
\* was ingested, normalized at most by the fallback that strips one leading zero: it
\* never went through an integer.
C25_SerialKeptAsString ==
    reader_call.fn \in {"probe_calfile", "read_calfile"}
        => reader_call.device_serial = Normalized

\* data_source classifies v as src
Classified(v, src) ==
    \E i \in DOMAIN header.data_source : header.data_source[i] = <<v, src>>

\* the number of read_calfile calls made for v
ReadsFor(v, log) == Cardinality({i \in DOMAIN log : log[i].variable = v})

\* C26: only the variables classified 'observation' are handed to the selector, read
\* for, given a bracketing table and decided on, each of them once (at most one pre
\* and one post read, one message, one decision that never changes); a variable of any
\* other class gets no '_deviation' or '_raw' column and its series keeps its values.
C26_OnlyObservations ==
    [][/\ \A v \in DOMAIN selected' \cup DOMAIN calibration_data'
                      \cup DOMAIN drift_correction'
                      \cup {read_log'[i].variable : i \in DOMAIN read_log'} :
             /\ Classified(v, "observation")
             /\ ReadsFor(v, read_log') <= 2
             /\ Cardinality({i \in DOMAIN stdout' : stdout'[i].variable = v}) <= 1
             /\ v \in DOMAIN drift_correction => drift_correction'[v] = drift_correction[v]
       /\ \A i \in DOMAIN header.data_source :
             header.data_source[i][2] # "observation" =>
                 /\ data'[header.data_source[i][1]] = data[header.data_source[i][1]]
                 /\ \A w \in {"temperature", "salinity", "conductivity", "depth",
                              "pressure"} :
                       header.data_source[i][1] = w =>
                           /\ RawColumn(w) \notin DOMAIN data'
                           /\ DeviationColumn(w) \notin DOMAIN data']_vars

\* the run has ended: a derived variable was passed over and an observed one corrected
C26_Witness ==
    /\ pc = "corrected"
    /\ Classified("salinity", "teos10")
    /\ "salinity" \notin DOMAIN selected
    /\ "conductivity" \in DOMAIN drift_correction
    /\ drift_correction["conductivity"]
    /\ data["salinity"] # data["conductivity"]

\* C27: probe_calfile_single_year returns True for a workbook with exactly one year
\* sheet and False for a workbook with two or more.
C27_SingleYearFlag ==
    (reader_call.fn = "probe_calfile_single_year" /\ reader_call.exc = "none")
        => /\ (\E y \in DOMAIN calfile.sheets : DOMAIN calfile.sheets = {y})
                 => reader_call.single_year = <<TRUE>>
           /\ (\E y1, y2 \in DOMAIN calfile.sheets : y1 # y2)
                 => reader_call.single_year = <<FALSE>>

\* the flag was asked of a workbook with the sheets of two years
C27_Witness ==
    /\ reader_call.fn = "probe_calfile_single_year"
    /\ reader_call.single_year = <<FALSE>>
    /\ DOMAIN calfile.sheets = {DeploymentYear - 1, DeploymentYear}

\* C28: in every result with ok = True whose pre-deployment sheet is a year, that year
\* is strictly earlier than the post-deployment year, also when it is the year forced
\* by the user.
C28_PreBeforePost ==
    (Returned /\ calibrations.ok /\ calibrations.pre[2].type = "int")
        => calibrations.pre[2].val < calibrations.post[2].val

\* C29: a returned result is well formed. With ok = True the post year is the
\* deployment year or the next, the pre sheet is the user's year, one of the two years
\* before the deployment year, or 'blank', and both variants are the variable itself
\* (temperature, depth) or its '_raw' or '_clean' variant (salinity, conductivity);
\* with ok = False the pre and the post sheet are both None.
C29_WellFormed ==
    Returned =>
        IF calibrations.ok
        THEN /\ calibrations.post[2] \in {[type |-> "int", val |-> Y],
                                          [type |-> "int", val |-> Y + 1]}
             /\ calibrations.pre[2] \in
                    {[type |-> "int", val |-> Y - 1], [type |-> "int", val |-> Y - 2],
                     [type |-> "str_blank", val |-> 0]}
                        \cup (IF year_pre.type = "int" THEN {year_pre} ELSE {})
             /\ variable \in TD \cup SC
             /\ variable \in TD =>
                    calibrations.pre[1] = variable /\ calibrations.post[1] = variable
             /\ variable \in SC =>
                    {calibrations.pre[1], calibrations.post[1]}
                        \subseteq {RawOf(variable), CleanOf(variable)}
        ELSE /\ calibrations.pre[2] = [type |-> "NoneType", val |-> 0]
             /\ calibrations.post[2] = [type |-> "NoneType", val |-> 0]

\* the user's year, older than the window, was taken as pre year for the clean
\* conductivity, with the post calibration of the year after the deployment
C29_Witness ==
    /\ Returned
    /\ variable = "conductivity"
    /\ calibrations.ok
    /\ calibrations.pre = <<"conductivity_clean", [type |-> "int", val |-> Y - 3]>>
    /\ calibrations.post = <<"conductivity_raw", [type |-> "int", val |-> Y + 1]>>

\* C30: when manage_drift_correction returns, header['drift_correction'] has an entry
\* for exactly the variables that have a bracketing table in calibration_data and a
\* '<variable>_raw' column exists for exactly the variables whose entry is True; the
\* step that decides on one variable leaves every other column as it was.
C30_CorrectionConsistent ==
    [][/\ pc' = "corrected" =>
             /\ DOMAIN drift_correction' = DOMAIN calibration_data'
             /\ \A v \in {"temperature", "salinity", "conductivity", "depth", "pressure"} :
                   RawColumn(v) \in DOMAIN data'
                       <=> (v \in DOMAIN drift_correction' /\ drift_correction'[v])
       /\ \A v \in DOMAIN drift_correction' :
             JustDecided(v) => \A w \in DOMAIN data \ {v} : data'[w] = data[w]]_vars

\* the run has ended with a corrected variable, its observed values kept in the '_raw'
\* column, and an observed variable without table
C30_Witness ==
    /\ pc = "corrected"
    /\ \E v \in DOMAIN drift_correction :
          /\ drift_correction[v]
          /\ \E i \in DOMAIN data[v] : ~data[v][i].nan /\ data[v][i] # data[RawColumn(v)][i]
    /\ \E i \in DOMAIN header.data_source :
          /\ header.data_source[i][2] = "observation"
          /\ header.data_source[i][1] \notin DOMAIN calibration_data

=============================================================================
